---- MODULE Spec2Model ----
(***************************************************************************)
(* A model of the transaction manager of src/tm: the per-row lock records  *)
(* (dummy_rw_lock.py), the row-versioned tables (table.py), the lock-based *)
(* and the multi-version transactions (transaction.py) and the manager     *)
(* with its schedule executor (transaction_manager.py, codegen.py).        *)
(*                                                                         *)
(* The program state is held in the variables below.  Every operation of   *)
(* the source is an operator from a state record to a state record, named  *)
(* as in the source; an action applies one call (or one iteration of the   *)
(* executor's loop) to the current state.                                  *)
(***************************************************************************)
EXTENDS Integers, Sequences, FiniteSets, TLC

(***************************************************************************)
(* Bounds of the model.                                                    *)
(***************************************************************************)
MaxCalls == 4       \* reads, updates, inserts and deletes made in one run

Tx == {1, 2}        \* transactions begun after the tables were loaded
TableNames == {1}   \* table names, ordered like the strings of the source
LoadedVals == << 0, 0 >>  \* the attribute value of each row loaded at the start
Vals == {1}         \* attribute values written by update and insert

VARIABLES
    isolation_level,      \* TransactionManager.isolation_level
    use_mvcc,             \* TransactionManager.use_mvcc
    table_dict,           \* table name -> [tuples, deleted_row_ids]
    global_lock_dict,     \* (table, row) -> DummyRWLock
    tx_id_gen,            \* TransactionManager.tx_id_gen
    timestamp_counter,    \* TransactionManager.timestamp_counter
    transaction_list,     \* TransactionManager.transaction_list
    active_transactions,  \* TransactionManager.active_transactions
    tx,                   \* the transaction objects
    exc,                  \* the exception that ended the program, or "none"
    code,                 \* _execute: the statements not fetched yet
    tx_list,              \* history: tx_list[:ip] of _execute, the
                          \* transactions of the statements fetched so far
    closed,               \* execute_schedule: no statement follows code
    ended,                \* history: transactions whose COMMIT or ABORT
                          \* statement was handed to the executor
    ctx_var,              \* _execute: context[var_name], one per transaction
    ip,                   \* _execute: instruction pointer
    pending_queue,        \* _execute: transaction -> deferred statement indices
    pending_counter,      \* _execute: number of deferred statements
    schedule,             \* _execute: indices in the order executed
    done,                 \* _execute has left its loop
    precedence,           \* history: conflict edges << earlier, later >>
    accessed,             \* history: key -> transactions that read / wrote it
    ncalls,               \* history: the number of calls made so far
    lastop,               \* history: the call made by the last step
    first_image,          \* history: per transaction, row -> chain before
                          \* the transaction first changed it
    relations,            \* ra: relation name -> Relation object
    index,                \* ra: the Index object built, or None
    got,                  \* history: the last Index.get call and its outcome
    ops,                  \* ra: the operator objects, by identity
    root,                 \* ra: the root of the plan the caller holds
    rule,                 \* ra: the Rule object of the last rewrite
    applied,              \* history: the rewrites applied to the plan
    raised,               \* ra: the exception a rewrite ended with, or "none"
    plan0                 \* history: the plan as it was built

vars == << isolation_level, use_mvcc, table_dict, global_lock_dict,
           tx_id_gen, timestamp_counter, transaction_list,
           active_transactions, tx, exc, code, tx_list, closed, ended, ctx_var,
           ip, pending_queue,
           pending_counter, schedule, done, precedence, accessed,
           ncalls, lastop, first_image,
           relations, index, got, ops, root, rule, applied, raised, plan0 >>

(***************************************************************************)
(* Keys (table_name, rowid) and their order (Python tuple comparison).     *)
(***************************************************************************)
KeyLess(a, b) == a[1] < b[1] \/ (a[1] = b[1] /\ a[2] < b[2])

\* ('', -1): the empty string sorts before every table name
InitialLockId == << 0, -1 >>

Remove(f, ks) == [x \in (DOMAIN f) \ ks |-> f[x]]

(***************************************************************************)
(* dummy_rw_lock.py                                                        *)
(***************************************************************************)
\* Python's None, a value apart from every row id, value and transaction id
None == -1

DummyRWLock == [readers |-> 0, active_writer |-> FALSE, requestor |-> None]

\* a slip that forgets to count the reader
try_acquire_read_uncounted(l) ==
    IF ~l.active_writer
    THEN [lock |-> l, success |-> TRUE, msg |-> "read_lock_acquired"]
    ELSE [lock |-> l, success |-> FALSE, msg |-> "write_lock_already_held"]

try_acquire_read(l) ==
    IF ~l.active_writer
    THEN [lock |-> [l EXCEPT !.readers = @ + 1], success |-> TRUE,
          msg |-> "read_lock_acquired"]
    ELSE [lock |-> l, success |-> FALSE, msg |-> "write_lock_already_held"]

\* a slip that grants the write lock while readers hold the lock
try_acquire_write_over_readers(l) ==
    IF l.active_writer
    THEN [lock |-> l, success |-> FALSE, msg |-> "write_lock_already_held"]
    ELSE [lock |-> [l EXCEPT !.active_writer = TRUE], success |-> TRUE,
          msg |-> "write_lock_acquired"]

try_acquire_write(l) ==
    IF l.active_writer
    THEN [lock |-> l, success |-> FALSE, msg |-> "write_lock_already_held"]
    ELSE IF l.readers # 0
    THEN [lock |-> l, success |-> FALSE, msg |-> "read_lock_already_held"]
    ELSE [lock |-> [l EXCEPT !.active_writer = TRUE], success |-> TRUE,
          msg |-> "write_lock_acquired"]

\* a release that leaves the reader counted
release_read_lock_uncounted(l) == [lock |-> l, ret |-> None]

\* the method has no return statement: the caller receives None
release_read_lock(l) ==
    [lock |-> IF l.readers > 0 THEN [l EXCEPT !.readers = @ - 1] ELSE l,
     ret |-> None]

release_write_lock(l) ==
    IF l.active_writer
    THEN [l EXCEPT !.active_writer = FALSE, !.requestor = None]
    ELSE l

\* a lock that lets every requestor wait for the write lock
wait_for_write_granted(l, requestor) ==
    [lock |-> [l EXCEPT !.requestor = requestor], ret |-> TRUE]

wait_for_write(l, requestor) ==
    IF l.requestor = None \/ l.requestor = requestor
    THEN [lock |-> [l EXCEPT !.requestor = requestor], ret |-> TRUE]
    ELSE [lock |-> l, ret |-> FALSE]

(***************************************************************************)
(* table.py: a table is [tuples, deleted_row_ids]; tuples[i + 1] is the    *)
(* version chain of row id i.                                              *)
(***************************************************************************)
TableGet(tb, rowid) ==
    IF rowid < 0 \/ rowid >= Len(tb.tuples) THEN << >> ELSE tb.tuples[rowid + 1]

\* rowid_index = get_attribute_index('row_id') is 1: row_id leads the schema
TablePut(tb, row) ==
    IF ~use_mvcc
    THEN [tb EXCEPT !.tuples[row[1] + 1] = << row >>]
    ELSE [tb EXCEPT !.tuples[row[1] + 1] = Append(@, row)]

InSeq(x, q) == \E i \in 1 .. Len(q) : q[i] = x

\* the row id is not put on deleted_row_ids
TableDelete(tb, rowid) ==
    IF ~InSeq(rowid, tb.deleted_row_ids)
    THEN [tb EXCEPT !.tuples[rowid + 1] = << >>]
    ELSE tb

get_next_row_id(tb) ==
    IF Len(tb.deleted_row_ids) > 0
    THEN [tb |-> [tb EXCEPT !.deleted_row_ids = SubSeq(@, 1, Len(@) - 1)],
          rowid |-> tb.deleted_row_ids[Len(tb.deleted_row_ids)]]
    ELSE [tb |-> [tb EXCEPT !.tuples = Append(@, << >>)],
          rowid |-> Len(tb.tuples)]

Chain(td, k) == TableGet(td[k[1]], k[2])

AllKeys(td) ==
    UNION { { << n, r >> : r \in 0 .. Len(td[n].tuples) - 1 } : n \in TableNames }

\* the schema: row_id first, then begin_ts and end_ts on a multi-version
\* table (TransactionManager.add_table), then the one user attribute
attributes ==
    IF use_mvcc THEN << "row_id", "begin_ts", "end_ts", "val" >>
    ELSE << "row_id", "val" >>

get_attribute_index(a) == CHOOSE i \in 1 .. Len(attributes) : attributes[i] = a

tuple_to_dict(row) ==
    [a \in { attributes[i] : i \in 1 .. Len(attributes) } |->
        row[get_attribute_index(a)]]

UnknownAttribute(update_dict) ==
    \E a \in DOMAIN update_dict : ~InSeq(a, attributes)

dict_to_tuple(update_dict, old_row) ==
    IF UnknownAttribute(update_dict)
    THEN None
    ELSE [i \in 1 .. Len(old_row) |->
            IF attributes[i] \in DOMAIN update_dict
            THEN update_dict[attributes[i]] ELSE old_row[i]]

EmptyRow == [i \in 1 .. Len(attributes) |-> None]

(***************************************************************************)
(* transaction.py: SVLockBasedTransaction.  A state record s holds         *)
(* table_dict, global_lock_dict, tx and exc.                               *)
(***************************************************************************)
NewSVTx(id) ==
    [status |-> "running", tx_id |-> id,
     read_lock_list_local |-> {}, write_lock_list_local |-> {},
     local_reads |-> << >>, last_lock_id |-> InitialLockId,
     original_row |-> << >>,
     lock_order |-> << >>]          \* history: keys in the order granted

NoTx == [NewSVTx(0) EXCEPT !.status = "none"]

Raise(s, e) == [s EXCEPT !.exc = e]

SetLock(s, k, l) ==
    [s EXCEPT !.global_lock_dict = (k :> l) @@ s.global_lock_dict]

Granted(s, t, k) == [s EXCEPT !.tx[t].lock_order = Append(@, k)]

\* for dict_key in read_lock_list_local:
\*     if global_lock_dict[dict_key].release_read_lock() == 0: del ...
ReleaseReads(s, t) ==
    LET rl == s.tx[t].read_lock_list_local
        g == s.global_lock_dict
        released == [k \in DOMAIN g |->
                       IF k \in rl THEN release_read_lock(g[k]).lock ELSE g[k]]
        gone == { k \in rl \cap DOMAIN g : release_read_lock(g[k]).ret = 0 }
    IN [s EXCEPT !.global_lock_dict = Remove(released, gone)]

\* for dict_key in write_lock_list_local:
\*     global_lock_dict[dict_key].release_write_lock(); del ...
ReleaseWrites(s, t) ==
    [s EXCEPT !.global_lock_dict = Remove(@, s.tx[t].write_lock_list_local)]

MissingLock(s, t) ==
    \E k \in s.tx[t].read_lock_list_local \cup s.tx[t].write_lock_list_local :
        k \notin DOMAIN s.global_lock_dict

\* table.put(original_row[key]) or table.delete(key[1]) for every write lock
RestoreRows(s, t) ==
    LET me == s.tx[t]
        restored(n) ==
            [i \in 1 .. Len(s.table_dict[n].tuples) |->
               LET k == << n, i - 1 >> IN
               IF k \in me.write_lock_list_local
               THEN IF k \in DOMAIN me.original_row
                    THEN TablePut(s.table_dict[n], me.original_row[k]).tuples[i]
                    ELSE TableDelete(s.table_dict[n], i - 1).tuples[i]
               ELSE s.table_dict[n].tuples[i]]
    IN [s EXCEPT !.table_dict =
            [n \in TableNames |-> [s.table_dict[n] EXCEPT !.tuples = restored(n)]]]

commit(s, t) ==
    IF s.tx[t].status = "running"
    THEN LET s1 == [s EXCEPT !.tx[t].status = "committed"] IN
         IF MissingLock(s1, t) THEN [s |-> Raise(s1, "KeyError"), ret |-> FALSE]
         ELSE [s |-> ReleaseWrites(ReleaseReads(s1, t), t), ret |-> TRUE]
    ELSE [s |-> s, ret |-> FALSE]

\* a rollback that does not look at the status
rollback_any_status(s, t) ==
    LET s1 == [s EXCEPT !.tx[t].status = "aborted"] IN
    IF MissingLock(s1, t) THEN Raise(s1, "KeyError")
    ELSE ReleaseWrites(RestoreRows(ReleaseReads(s1, t), t), t)

rollback(s, t) ==
    IF s.tx[t].status = "running"
    THEN LET s1 == [s EXCEPT !.tx[t].status = "aborted"] IN
         IF MissingLock(s1, t) THEN Raise(s1, "KeyError")
         ELSE ReleaseWrites(RestoreRows(ReleaseReads(s1, t), t), t)
    ELSE s

read_lock_acquire(s, t, k) ==
    LET me == s.tx[t] IN
    IF KeyLess(k, me.last_lock_id)
    THEN [s |-> rollback(s, t), success |-> FALSE,
          msg |-> "deadlock_avoided: lock-order incorrect"]
    ELSE IF k \in me.read_lock_list_local \/ k \in me.write_lock_list_local
    THEN [s |-> s, success |-> TRUE, msg |-> "read_lock_acquired"]
    ELSE LET r == IF k \in DOMAIN s.global_lock_dict
                  THEN try_acquire_read(s.global_lock_dict[k])
                  ELSE try_acquire_read(DummyRWLock)
         IN IF r.success
            THEN [s |-> Granted(
                    [SetLock(s, k, r.lock) EXCEPT
                        !.tx[t].last_lock_id = k,
                        !.tx[t].read_lock_list_local = @ \cup {k}], t, k),
                  success |-> TRUE, msg |-> r.msg]
            ELSE [s |-> s, success |-> FALSE, msg |-> r.msg]

\* the write-lock request of a key that is in read_lock_list_local
\* an upgrade that does not take the read lock back when the write lock is
\* refused
upgrade_read_lock_lost(s, t, k) ==
    LET me == s.tx[t]
        l1 == release_read_lock(s.global_lock_dict[k]).lock
        w == try_acquire_write(l1)
    IN IF ~w.success
       THEN LET ww == wait_for_write(w.lock, me.tx_id)
            IN IF ww.ret
               THEN [s |-> SetLock(s, k, ww.lock), success |-> FALSE,
                     msg |-> "write_lock_acquire_failed"]
               ELSE [s |-> rollback(SetLock(s, k, ww.lock), t),
                     success |-> FALSE, msg |-> "transaction_aborted"]
       ELSE [s |-> Granted(
                [SetLock(s, k, w.lock) EXCEPT
                    !.tx[t].read_lock_list_local = @ \ {k},
                    !.tx[t].write_lock_list_local = @ \cup {k}], t, k),
             success |-> TRUE, msg |-> "write_lock_acquired"]

upgrade(s, t, k) ==
    LET me == s.tx[t]
        l1 == release_read_lock(s.global_lock_dict[k]).lock
        w == try_acquire_write(l1)
    IN IF ~w.success
       THEN LET l2 == try_acquire_read(w.lock).lock
                ww == wait_for_write(l2, me.tx_id)
            IN IF ww.ret
               THEN [s |-> SetLock(s, k, ww.lock), success |-> FALSE,
                     msg |-> "write_lock_acquire_failed"]
               ELSE [s |-> rollback(SetLock(s, k, ww.lock), t),
                     success |-> FALSE, msg |-> "transaction_aborted"]
       ELSE [s |-> Granted(
                [SetLock(s, k, w.lock) EXCEPT
                    !.tx[t].read_lock_list_local = @ \ {k},
                    !.tx[t].write_lock_list_local = @ \cup {k}], t, k),
             success |-> TRUE, msg |-> "write_lock_acquired"]

\* the write-lock request of a key no lock record exists for
fresh_write_lock(s, t, k) ==
    LET w == try_acquire_write(DummyRWLock) IN
    IF w.success
    THEN [s |-> Granted(
             [SetLock(s, k, w.lock) EXCEPT
                 !.tx[t].write_lock_list_local = @ \cup {k}], t, k),
          success |-> TRUE, msg |-> w.msg]
    ELSE [s |-> s, success |-> FALSE, msg |-> w.msg]

\* the write-lock request of a key another lock record exists for
existing_write_lock(s, t, k) ==
    LET w == try_acquire_write(s.global_lock_dict[k]) IN
    IF w.success
    THEN [s |-> Granted(
             [SetLock(s, k, w.lock) EXCEPT
                 !.tx[t].write_lock_list_local = @ \cup {k},
                 !.tx[t].last_lock_id = k], t, k),
          success |-> TRUE, msg |-> w.msg]
    ELSE [s |-> s, success |-> FALSE, msg |-> w.msg]

write_lock_acquire(s, t, k) ==
    LET me == s.tx[t] IN
    IF KeyLess(k, me.last_lock_id)
    THEN [s |-> rollback(s, t), success |-> FALSE,
          msg |-> "deadlock_avoided: lock-order incorrect"]
    ELSE IF k \in me.write_lock_list_local
    THEN [s |-> s, success |-> TRUE, msg |-> "write_lock_acquired"]
    ELSE IF k \in me.read_lock_list_local
    THEN IF k \notin DOMAIN s.global_lock_dict
         THEN [s |-> Raise(s, "KeyError"), success |-> FALSE, msg |-> "KeyError"]
         ELSE upgrade(s, t, k)
    ELSE IF k \notin DOMAIN s.global_lock_dict
    THEN fresh_write_lock(s, t, k)
    ELSE existing_write_lock(s, t, k)

Result(s, msg, success, row) ==
    [s |-> s, msg |-> msg, success |-> success, row |-> row]

read_READ_UNCOMMITED(s, t, k) ==
    LET row == Chain(s.table_dict, k) IN
    IF Len(row) > 0
    THEN Result(s, "row_found", TRUE, tuple_to_dict(row[Len(row)]))
    ELSE Result(s, "row_not_found", FALSE, None)

read_READ_COMMITTED(s, t, k, release_lock) ==
    LET a == read_lock_acquire(s, t, k) IN
    IF ~a.success
    THEN Result(a.s, a.msg, FALSE, None)
    ELSE LET row == Chain(a.s.table_dict, k) IN
         IF Len(row) > 0
         THEN LET ret_dict == tuple_to_dict(row[Len(row)]) IN
              IF release_lock
              THEN LET s1 == SetLock(a.s, k,
                                release_read_lock(a.s.global_lock_dict[k]).lock)
                   IN IF k \in s1.tx[t].read_lock_list_local
                      THEN Result([s1 EXCEPT !.tx[t].read_lock_list_local = @ \ {k}],
                                  "row_found", TRUE, ret_dict)
                      \* list.remove(x) of an absent x
                      ELSE Result(Raise(s1, "ValueError"), "ValueError", FALSE, None)
              ELSE Result(a.s, "row_found", TRUE, ret_dict)
         ELSE Result(a.s, "row_not_found", FALSE, None)

read_REPEATABLE_READS(s, t, k, release_lock) ==
    IF k \notin DOMAIN s.tx[t].local_reads
    THEN LET r == read_READ_COMMITTED(s, t, k, release_lock) IN
         IF ~r.success
         THEN Result(r.s, r.msg, FALSE, None)
         ELSE Result([r.s EXCEPT !.tx[t].local_reads = (k :> r.row) @@ @],
                     "row_found", TRUE, r.row)
    ELSE Result(s, "row_found", TRUE, s.tx[t].local_reads[k])

\* a serializable read that gives its read lock back after the read
read_SERIALIZABLE_releasing(s, t, k) == read_REPEATABLE_READS(s, t, k, TRUE)

read_SERIALIZABLE(s, t, k) == read_REPEATABLE_READS(s, t, k, FALSE)

\* a read-committed read that keeps its read lock
read_keeping_lock(s, t, k) ==
    IF isolation_level = "READ_UNCOMMITTED" THEN read_READ_UNCOMMITED(s, t, k)
    ELSE IF isolation_level = "READ_COMMITTED"
    THEN read_READ_COMMITTED(s, t, k, FALSE)
    ELSE read_SERIALIZABLE(s, t, k)

\* a slip that reads at every isolation level without a read lock
read_without_lock(s, t, k) == read_READ_UNCOMMITED(s, t, k)

read(s, t, k) ==
    IF isolation_level = "READ_UNCOMMITTED" THEN read_READ_UNCOMMITED(s, t, k)
    ELSE IF isolation_level = "READ_COMMITTED"
    THEN read_READ_COMMITTED(s, t, k, TRUE)
    ELSE IF isolation_level = "REPEATABLE_READS" THEN read_SERIALIZABLE(s, t, k)
    ELSE read_SERIALIZABLE(s, t, k)

SaveOriginal(s, t, k, row) ==
    IF k \notin DOMAIN s.tx[t].original_row
    THEN [s EXCEPT !.tx[t].original_row = (k :> row) @@ @]
    ELSE s

PutRow(s, n, row) == [s EXCEPT !.table_dict[n] = TablePut(@, row)]

update(s, t, k, update_dict) ==
    LET a == write_lock_acquire(s, t, k)
        d == ("row_id" :> k[2]) @@ update_dict
    IN IF ~a.success
       THEN Result(a.s, a.msg, FALSE, None)
       ELSE LET row == Chain(a.s.table_dict, k) IN
            IF Len(row) = 0
            THEN Result(a.s, "row_not_found", FALSE, None)
            ELSE LET old == row[Len(row)]
                     s1 == SaveOriginal(a.s, t, k, old)
                     new_row == dict_to_tuple(d, old)
                 IN IF UnknownAttribute(d)     \* assert new_row is not None
                    THEN Result(Raise(s1, "AssertionError"), "AssertionError",
                                FALSE, None)
                    ELSE Result(PutRow(s1, k[1], new_row), "row_updated", TRUE,
                                tuple_to_dict(new_row))

\* returns (msg, row_id); success is row_id > -1
insert(s, t, n, insert_dict) ==
    LET g == get_next_row_id(s.table_dict[n])
        k == << n, g.rowid >>
        a == write_lock_acquire([s EXCEPT !.table_dict[n] = g.tb], t, k)
        d == ("row_id" :> g.rowid) @@ insert_dict
    IN IF ~a.success
       THEN [s |-> a.s, msg |-> a.msg, row_id |-> -1, key |-> k]
       ELSE LET new_row == dict_to_tuple(d, EmptyRow) IN
            IF UnknownAttribute(d)             \* assert new_row is not None
            THEN [s |-> Raise(a.s, "AssertionError"), msg |-> "AssertionError",
                  row_id |-> -1, key |-> k]
            ELSE [s |-> PutRow(a.s, n, new_row), msg |-> "row_inserted",
                  row_id |-> g.rowid, key |-> k]

\* the outcome of _write_lock_acquire is not looked at; returns None
delete(s, t, k) ==
    LET a == write_lock_acquire(s, t, k)
        row == Chain(a.s.table_dict, k)
    IN IF a.s.exc # "none" THEN a.s
       ELSE IF Len(row) = 0 THEN Raise(a.s, "AssertionError")
       ELSE [SaveOriginal(a.s, t, k, row[Len(row)]) EXCEPT
                !.table_dict[k[1]] = TableDelete(@, k[2])]

(***************************************************************************)
(* The lock-based transactions called directly (begin_transaction, then    *)
(* the methods of the transaction objects in any interleaving).  The       *)
(* callers respect the methods' assertions: read, update, insert and       *)
(* delete are called on a running transaction only.                        *)
(***************************************************************************)
Cur == [table_dict |-> table_dict, global_lock_dict |-> global_lock_dict,
        tx |-> tx, exc |-> exc]

Install(s) ==
    /\ table_dict' = s.table_dict
    /\ global_lock_dict' = s.global_lock_dict
    /\ tx' = s.tx
    /\ exc' = s.exc

Changed(old, new) == { k \in AllKeys(new) : Chain(old, k) # Chain(new, k) }

Track(t, new) ==
    LET ch == Changed(table_dict, new.table_dict) \ DOMAIN first_image[t] IN
    first_image' = [first_image EXCEPT ![t] =
        [k \in ch |-> Chain(table_dict, k)] @@ @]

Config == << isolation_level, use_mvcc >>

\* the relational-algebra engine, which the transaction manager never touches
RaVars == << relations, index, got, ops, root, rule, applied, raised, plan0 >>

\* the value of a variable that holds no object yet
Null == [null |-> TRUE]

\* no relation was loaded and no plan was built
NoPlan ==
    /\ relations = << >> /\ index = Null /\ got = Null
    /\ ops = << >> /\ root = None /\ rule = Null
    /\ applied = << >> /\ raised = "none" /\ plan0 = Null

\* the state of the manager that only multi-version transactions use
MvccVars == << timestamp_counter, transaction_list, active_transactions >>

\* the state of the schedule executor, which the direct calls leave alone
ExecVars == << code, tx_list, closed, ended, ctx_var, ip, pending_queue, pending_counter,
               schedule, done, precedence, accessed >>

CanCall(t) ==
    /\ exc = "none" /\ tx[t].status = "running"
    /\ ncalls < MaxCalls
    /\ ncalls' = ncalls + 1

Call(op, t, k, success, row) ==
    [op |-> op, tx |-> t, key |-> k, success |-> success, row |-> row]

LoadedTable ==
    [tuples |-> [i \in 1 .. Len(LoadedVals) |-> << << i - 1, LoadedVals[i] >> >>],
     deleted_row_ids |-> << >>]

\* the state after construction: the tables td were loaded, and committed, by
\* transaction 1; the schedule handed to the executor is one of codes
StartTM(levels, td, codes, cl) ==
    /\ isolation_level \in levels
    /\ use_mvcc = FALSE
    /\ table_dict = td
    /\ global_lock_dict = << >>
    /\ tx_id_gen = 1
    /\ timestamp_counter = 0
    /\ transaction_list = << << >> >>
    /\ active_transactions = {}
    /\ tx = [t \in Tx |-> NoTx]
    /\ exc = "none"
    /\ code \in codes /\ closed = cl /\ ended = {} /\ ip = 0
    /\ tx_list = << >>
    /\ ctx_var = [t \in Tx |-> None]
    /\ pending_queue = [t \in Tx |-> << >>]
    /\ pending_counter = 0
    /\ schedule = << >>
    /\ done = FALSE
    /\ precedence = {}
    /\ accessed = << >>
    /\ ncalls = 0
    /\ lastop = Call("init", 0, InitialLockId, TRUE, None)
    /\ first_image = [t \in Tx |-> << >>]

\* the state after construction of a manager; the engine of src/ra is idle
Start(levels, td, codes, cl) == StartTM(levels, td, codes, cl) /\ NoPlan

Init ==
    Start({ "READ_UNCOMMITTED", "READ_COMMITTED", "REPEATABLE_READS",
            "SERIALIZABLE" },
          [n \in TableNames |-> LoadedTable], { << >> }, TRUE)

\* begin_transaction touches tx_id_gen and the new object only, so it commutes
\* with every other call: the transactions are numbered in the order they
\* begin, and begin before the first call is made
Begin(t) ==
    /\ exc = "none" /\ tx[t].status = "none"
    /\ ncalls = 0 /\ \A u \in Tx : u < t => tx[u].status # "none"
    /\ tx_id_gen' = tx_id_gen + 1
    /\ tx' = [tx EXCEPT ![t] = NewSVTx(tx_id_gen + 1)]
    /\ lastop' = Call("begin", t, InitialLockId, TRUE, None)
    /\ UNCHANGED << Config, RaVars, MvccVars, ExecVars, table_dict, global_lock_dict, exc, ncalls,
                    first_image >>

Read(t, k) ==
    /\ CanCall(t)
    /\ LET r == read(Cur, t, k) IN
        /\ Install(r.s)
        /\ lastop' = Call("read", t, k, r.success, r.row)
    /\ UNCHANGED << Config, RaVars, MvccVars, ExecVars, tx_id_gen, first_image >>

Update(t, k, v) ==
    /\ CanCall(t)
    /\ LET r == update(Cur, t, k, [val |-> v]) IN
        /\ Install(r.s)
        /\ Track(t, r.s)
        /\ lastop' = Call("update", t, k, r.success, r.row)
    /\ UNCHANGED << Config, RaVars, MvccVars, ExecVars, tx_id_gen >>

Insert(t, n, v) ==
    /\ CanCall(t)
    /\ LET r == insert(Cur, t, n, [val |-> v]) IN
        /\ Install(r.s)
        /\ Track(t, r.s)
        /\ lastop' = Call("insert", t, r.key, r.row_id > -1, None)
    /\ UNCHANGED << Config, RaVars, MvccVars, ExecVars, tx_id_gen >>

Delete(t, k) ==
    /\ CanCall(t)
    /\ LET s == delete(Cur, t, k) IN
        /\ Install(s)
        /\ Track(t, s)
        /\ lastop' = Call("delete", t, k, TRUE, None)
    /\ UNCHANGED << Config, RaVars, MvccVars, ExecVars, tx_id_gen >>

Commit(t) ==
    /\ exc = "none" /\ tx[t].status = "running"
    /\ LET r == commit(Cur, t) IN
        /\ Install(r.s)
        /\ lastop' = Call("commit", t, InitialLockId, r.ret, None)
    /\ UNCHANGED << Config, RaVars, MvccVars, ExecVars, tx_id_gen, ncalls, first_image >>

Rollback(t) ==
    /\ exc = "none" /\ tx[t].status = "running"
    /\ Install(rollback(Cur, t))
    /\ lastop' = Call("rollback", t, InitialLockId, TRUE, None)
    /\ UNCHANGED << Config, RaVars, MvccVars, ExecVars, tx_id_gen, ncalls, first_image >>

Next ==
    \E t \in Tx :
        \/ Begin(t)
        \/ \E k \in AllKeys(table_dict) : Read(t, k)
        \/ \E k \in AllKeys(table_dict), v \in Vals : Update(t, k, v)
        \/ \E n \in TableNames, v \in Vals : Insert(t, n, v)
        \/ \E k \in AllKeys(table_dict) : Delete(t, k)
        \/ Commit(t)
        \/ Rollback(t)

Spec == Init /\ [][Next]_vars

(***************************************************************************)
(* transaction.py: MVCCTransaction.  A state record m holds table_dict,    *)
(* tx, exc, timestamp_counter, transaction_list and active_transactions.   *)
(* A row dictionary is [row_id, begin_ts, end_ts, val].                    *)
(***************************************************************************)
\* 1 << 32, the end_ts of a version that is not ended, and 1 << 64 - 1, the
\* commit_ts of a transaction that has not committed: both lie above every
\* timestamp issued; the largest integer of the model checker stands for them
Infinity == 2147483647

\* transaction_list is the list object the transaction was given: its place
\* among the list objects the manager has made; committed_reads is history,
\* the read_set that a successful commit validated and then cleared
NewMVCCTx(transaction_list_ref, begin_ts) ==
    [status |-> "running", transaction_list |-> transaction_list_ref,
     begin_ts |-> begin_ts, commit_ts |-> Infinity,
     read_set |-> {}, write_set |-> {}, local_updates |-> << >>,
     committed_reads |-> {}]

NoMVCCTx == [NewMVCCTx(0, 0) EXCEPT !.status = "none"]

mvcc_rollback(m, t) ==
    IF m.tx[t].status = "running"
    THEN [m EXCEPT !.tx[t].read_set = {}, !.tx[t].write_set = {},
                   !.tx[t].local_updates = None, !.tx[t].status = "aborted"]
    ELSE m

\* the first version of the chain with begin_ts <= self.begin_ts < end_ts
mvcc_read(m, t, k) ==
    LET me == m.tx[t] IN
    IF k \in DOMAIN me.local_updates
    THEN IF me.local_updates[k].end_ts > me.begin_ts
         THEN Result(m, "row_found", TRUE, me.local_updates[k])
         ELSE Result(mvcc_rollback(m, t),
                     "read_after_delete, transaction_aborted", FALSE, None)
    ELSE LET row == Chain(m.table_dict, k)
             seen == { i \in 1 .. Len(row) :
                         /\ row[i][get_attribute_index("begin_ts")] <= me.begin_ts
                         /\ row[i][get_attribute_index("end_ts")] > me.begin_ts }
         IN IF seen # {}
            THEN LET i == CHOOSE i \in seen : \A j \in seen : i <= j IN
                 Result([m EXCEPT !.tx[t].read_set = @ \cup {k}],
                        "row_found", TRUE, tuple_to_dict(row[i]))
            ELSE Result(mvcc_rollback(m, t),
                        "row_not_found, transaction_aborted", FALSE, None)

Written(m, t, k, row_dict) ==
    [m EXCEPT !.tx[t].local_updates = (k :> row_dict) @@ @,
              !.tx[t].write_set = @ \cup {k}]

mvcc_update(m, t, k, update_dict) ==
    LET local == k \in DOMAIN m.tx[t].local_updates
        r == IF local THEN Result(m, "row_found", TRUE, m.tx[t].local_updates[k])
             ELSE mvcc_read(m, t, k)
    IN IF ~r.success
       THEN Result(mvcc_rollback(r.s, t), "row_not_found, transaction_aborted",
                   FALSE, None)
       ELSE IF r.row.end_ts > r.s.tx[t].begin_ts
       THEN IF \E a \in DOMAIN update_dict : a \notin DOMAIN r.row
            THEN Result(mvcc_rollback(r.s, t),
                        "wrong_attribute_name, transaction aborted", FALSE, None)
            ELSE LET new == [a \in DOMAIN r.row |->
                               IF a \in DOMAIN update_dict THEN update_dict[a]
                               ELSE r.row[a]]
                 IN Result(Written(r.s, t, k, new), "row_updated", TRUE, new)
       ELSE Result(mvcc_rollback(r.s, t),
                   "update_after_delete, transaction_aborted", FALSE, None)

\* the row id is taken from the table at once; the method returns None
mvcc_insert(m, t, n, insert_dict) ==
    LET g == get_next_row_id(m.table_dict[n])
        k == << n, g.rowid >>
        d == [row_id |-> g.rowid, begin_ts |-> m.tx[t].begin_ts,
              end_ts |-> Infinity] @@ insert_dict
    IN [s |-> Written([m EXCEPT !.table_dict[n] = g.tb], t, k, d), key |-> k]

mvcc_delete(m, t, k) ==
    LET local == k \in DOMAIN m.tx[t].local_updates
        r == IF local THEN Result(m, "row_found", TRUE, m.tx[t].local_updates[k])
             ELSE mvcc_read(m, t, k)
    IN IF ~r.success
       THEN Result(mvcc_rollback(r.s, t), "row_not_found, transaction_aborted",
                   FALSE, None)
       ELSE LET old == [r.row EXCEPT !.end_ts = 0] IN
            Result(Written(r.s, t, k, old), "row_deleted", TRUE, old)

\* the validation without its read_set part
Conflicts_write_sets_only(m, t, commit_ts) ==
    LET me == m.tx[t]
        mine == m.transaction_list[me.transaction_list]
    IN
    \E i \in 1 .. Len(mine) :
        LET other == mine[i] IN
        /\ me.begin_ts < other.commit_ts /\ commit_ts > other.commit_ts
        /\ me.write_set \cap other.write_set # {}

\* for tx in self.transaction_list: the list the transaction was given
Conflicts(m, t, commit_ts) ==
    LET me == m.tx[t]
        mine == m.transaction_list[me.transaction_list]
    IN
    \E i \in 1 .. Len(mine) :
        LET other == mine[i] IN
        /\ me.begin_ts < other.commit_ts /\ commit_ts > other.commit_ts
        /\ \/ me.write_set \cap other.write_set # {}
           \/ /\ isolation_level # "SNAPSHOT_ISOLATION"
              /\ me.read_set \cap other.write_set # {}

\* a deleted row is ended at commit_ts, any other row begins at commit_ts
Stamped(val, commit_ts) ==
    IF val.end_ts = 0 THEN [val EXCEPT !.end_ts = commit_ts]
    ELSE [val EXCEPT !.begin_ts = commit_ts]

\* table.put(table.dict_to_tuple(val, empty_tuple)) for every local update
InstallWrites(m, t, commit_ts) ==
    LET lu == m.tx[t].local_updates
        installed(n) ==
            [i \in 1 .. Len(m.table_dict[n].tuples) |->
               LET k == << n, i - 1 >> IN
               IF k \in DOMAIN lu
               THEN TablePut(m.table_dict[n],
                             dict_to_tuple(Stamped(lu[k], commit_ts),
                                           EmptyRow)).tuples[i]
               ELSE m.table_dict[n].tuples[i]]
    IN [m EXCEPT !.table_dict =
            [n \in TableNames |-> [m.table_dict[n] EXCEPT !.tuples = installed(n)]]]

mvcc_commit(m, t, commit_ts) ==
    IF m.tx[t].status = "running"
    THEN LET m1 == [m EXCEPT !.tx[t].commit_ts = commit_ts] IN
         IF Conflicts(m1, t, commit_ts)
         THEN [s |-> mvcc_rollback(m1, t), ret |-> FALSE]
         ELSE IF \E k \in DOMAIN m1.tx[t].local_updates :
                    UnknownAttribute(m1.tx[t].local_updates[k])
         THEN [s |-> Raise(m1, "AssertionError"), ret |-> FALSE]
         ELSE [s |-> [InstallWrites(m1, t, commit_ts) EXCEPT
                         !.tx[t].committed_reads = m1.tx[t].read_set,
                         !.tx[t].read_set = {},
                         !.tx[t].local_updates = None,
                         !.tx[t].status = "committed"],
               ret |-> TRUE]
    ELSE [s |-> m, ret |-> FALSE]

(***************************************************************************)
(* transaction_manager.py: begin, commit and abort of either kind of       *)
(* transaction.  transaction_list holds the list objects the manager has   *)
(* made, the last of them being self.transaction_list; a list holds, of    *)
(* every committed transaction put on it, the commit_ts and the write_set  *)
(* that commit reads.                                                      *)
(***************************************************************************)
\* self.transaction_list
ManagerList(e) == Len(e.transaction_list)

\* if len(self.active_transactions) > 10
CleanThreshold == 10

begin_transaction(e, t) ==
    IF use_mvcc
    THEN [e EXCEPT !.timestamp_counter = @ + 1,
                   !.active_transactions = @ \cup {e.timestamp_counter + 1},
                   !.tx[t] = NewMVCCTx(ManagerList(e), e.timestamp_counter + 1)]
    ELSE [e EXCEPT !.tx_id_gen = @ + 1, !.tx[t] = NewSVTx(e.tx_id_gen + 1)]

\* self.transaction_list is bound to a new list object; the transactions
\* begun earlier keep the list they were given
clean_transaction_list(e, min_ts) ==
    LET Kept(other) == other.commit_ts > min_ts IN
    [e EXCEPT !.transaction_list =
        Append(@, SelectSeq(@[ManagerList(e)], Kept))]

commit_transaction(e, t) ==
    IF use_mvcc
    THEN IF e.tx[t].begin_ts \notin e.active_transactions   \* set.remove
         THEN [s |-> Raise(e, "KeyError"), ret |-> FALSE]
         ELSE LET e1 == [e EXCEPT !.active_transactions = @ \ {e.tx[t].begin_ts}]
                  act == e1.active_transactions
                  e2 == IF Cardinality(act) > CleanThreshold
                        THEN clean_transaction_list(e1,
                                CHOOSE x \in act : \A y \in act : x <= y)
                        ELSE e1
                  e3 == [e2 EXCEPT !.timestamp_counter = @ + 1]
                  c == mvcc_commit(e3, t, e3.timestamp_counter)
              IN IF c.ret
                 THEN [s |-> [c.s EXCEPT !.transaction_list[ManagerList(c.s)] =
                                Append(@, [commit_ts |-> c.s.tx[t].commit_ts,
                                           write_set |-> c.s.tx[t].write_set])],
                       ret |-> TRUE]
                 ELSE c
    ELSE commit(e, t)

abort_transaction(e, t) ==
    IF use_mvcc THEN mvcc_rollback(e, t) ELSE rollback(e, t)

(***************************************************************************)
(* codegen.py and TransactionManager._execute: the schedule executor.      *)
(* A statement is [tx, op, key, expr]; code holds tx_list[ip:] and          *)
(* code[ip:] of the source, and a deferred statement is kept with its      *)
(* index as in the source's pending_queue.  An executor state e is a state *)
(* record s with the executor's locals added.                              *)
(***************************************************************************)
Stmt(t, op, k, expr) == [tx |-> t, op |-> op, key |-> k, expr |-> expr]

\* values={'val': c} and values={'val': v + c}, v the transaction's variable
Lit(c) == [var |-> FALSE, add |-> c]
VarPlus(c) == [var |-> TRUE, add |-> c]

ExCur ==
    [table_dict |-> table_dict, global_lock_dict |-> global_lock_dict,
     tx |-> tx, exc |-> exc, tx_id_gen |-> tx_id_gen,
     timestamp_counter |-> timestamp_counter,
     transaction_list |-> transaction_list,
     active_transactions |-> active_transactions, ctx_var |-> ctx_var,
     code |-> code, ip |-> ip, pending_queue |-> pending_queue,
     pending_counter |-> pending_counter, schedule |-> schedule,
     precedence |-> precedence, accessed |-> accessed]

ExInstall(e) ==
    /\ Install(e)
    /\ tx_id_gen' = e.tx_id_gen
    /\ timestamp_counter' = e.timestamp_counter
    /\ transaction_list' = e.transaction_list
    /\ active_transactions' = e.active_transactions
    /\ ctx_var' = e.ctx_var
    /\ code' = e.code
    /\ ip' = e.ip
    /\ pending_queue' = e.pending_queue
    /\ pending_counter' = e.pending_counter
    /\ schedule' = e.schedule
    /\ precedence' = e.precedence
    /\ accessed' = e.accessed

\* history: transaction t reads (w = FALSE) or writes (w = TRUE) the table
\* row k; every earlier conflicting access of another transaction precedes
Access(e, t, k, w) ==
    LET a == IF k \in DOMAIN e.accessed THEN e.accessed[k]
             ELSE [r |-> {}, w |-> {}]
        before == (IF w THEN a.r \cup a.w ELSE a.w) \ {t}
    IN [e EXCEPT
          !.precedence = @ \cup { << u, t >> : u \in before },
          !.accessed = (k :> [r |-> IF w THEN a.r ELSE a.r \cup {t},
                              w |-> IF w THEN a.w \cup {t} ELSE a.w]) @@ @]

Outcome(e, success) == [e |-> e, success |-> success]

\* the value x, computed once, handed to what follows
Bind(x, F(_)) == CHOOSE y \in { F(v) : v \in { x } } : TRUE

\* {tx}.read, {tx}.update, {tx}.insert and {tx}.delete are the methods of the
\* class of the transaction object that begin_transaction made
tx_read(e, t, k) ==
    IF use_mvcc THEN mvcc_read(e, t, k) ELSE read(e, t, k)

tx_update(e, t, k, update_dict) ==
    IF use_mvcc THEN mvcc_update(e, t, k, update_dict)
    ELSE update(e, t, k, update_dict)

\* msg, row_id = None: the insert of a multi-version transaction returns
\* nothing to unpack
tx_insert(e, t, n, insert_dict) ==
    IF use_mvcc
    THEN Bind(mvcc_insert(e, t, n, insert_dict), LAMBDA r :
            [s |-> Raise(r.s, "TypeError"), key |-> r.key, row_id |-> -1])
    ELSE insert(e, t, n, insert_dict)

tx_delete(e, t, k) ==
    IF use_mvcc THEN mvcc_delete(e, t, k).s ELSE delete(e, t, k)

begin_template(e, t) ==
    IF e.tx[t].status # "none" THEN Outcome(Raise(e, "AssertionError"), FALSE)
    ELSE Outcome(begin_transaction(e, t), TRUE)

\* a read served from local_reads does not touch the table
read_template(e, t, k) ==
    IF e.tx[t].status = "none" THEN Outcome(Raise(e, "AssertionError"), FALSE)
    ELSE IF e.tx[t].status # "running" THEN Outcome(e, TRUE)
    ELSE LET cached == /\ ~use_mvcc
                       /\ isolation_level \in { "REPEATABLE_READS", "SERIALIZABLE" }
                       /\ k \in DOMAIN e.tx[t].local_reads
         IN Bind(tx_read([e EXCEPT !.ctx_var[t] = None], t, k), LAMBDA r :
            IF r.success
            THEN Outcome(IF cached THEN [r.s EXCEPT !.ctx_var[t] = r.row.val]
                         ELSE Access([r.s EXCEPT !.ctx_var[t] = r.row.val],
                                     t, k, FALSE), TRUE)
            ELSE Outcome(r.s, FALSE))

update_template(e, t, k, expr) ==
    IF e.tx[t].status = "none" THEN Outcome(Raise(e, "AssertionError"), FALSE)
    ELSE IF e.tx[t].status # "running" THEN Outcome(e, TRUE)
    ELSE IF expr.var /\ e.ctx_var[t] = None          \* None + c
    THEN Outcome(Raise(e, "TypeError"), FALSE)
    ELSE LET v == IF expr.var THEN e.ctx_var[t] + expr.add ELSE expr.add IN
         Bind(tx_update(e, t, k, [val |-> v]), LAMBDA r :
            IF r.success THEN Outcome(Access(r.s, t, k, TRUE), TRUE)
            ELSE Outcome(r.s, FALSE))

\* assert row_id > -1, 'insertion failed'
insert_template(e, t, n, expr) ==
    IF e.tx[t].status = "none" THEN Outcome(Raise(e, "AssertionError"), FALSE)
    ELSE IF e.tx[t].status # "running" THEN Outcome(e, TRUE)
    ELSE IF expr.var /\ e.ctx_var[t] = None
    THEN Outcome(Raise(e, "TypeError"), FALSE)
    ELSE LET v == IF expr.var THEN e.ctx_var[t] + expr.add ELSE expr.add IN
         Bind(tx_insert(e, t, n, [val |-> v]), LAMBDA r :
            IF r.s.exc # "none" THEN Outcome(r.s, FALSE)
            ELSE IF r.row_id > -1 THEN Outcome(Access(r.s, t, r.key, TRUE), TRUE)
            ELSE Outcome(Raise(r.s, "AssertionError"), FALSE))

delete_template(e, t, k) ==
    IF e.tx[t].status = "none" THEN Outcome(Raise(e, "AssertionError"), FALSE)
    ELSE IF e.tx[t].status # "running" THEN Outcome(e, TRUE)
    ELSE Bind(tx_delete(e, t, k), LAMBDA s :
            IF s.exc # "none" THEN Outcome(s, FALSE)
            ELSE Outcome(Access(s, t, k, TRUE), TRUE))

commit_template(e, t) ==
    IF e.tx[t].status = "none" THEN Outcome(Raise(e, "AssertionError"), FALSE)
    ELSE IF e.tx[t].status # "running" THEN Outcome(e, TRUE)
    ELSE Bind(commit_transaction(e, t), LAMBDA r : Outcome(r.s, r.ret))

abort_template(e, t) ==
    IF e.tx[t].status = "none" THEN Outcome(Raise(e, "AssertionError"), FALSE)
    ELSE IF e.tx[t].status # "running" THEN Outcome(e, TRUE)
    ELSE Outcome(abort_transaction(e, t), TRUE)

\* exec(code_fragment, globals(), context)
exec_fragment(e, st) ==
    IF st.op = "BEGIN" THEN begin_template(e, st.tx)
    ELSE IF st.op = "READ" THEN read_template(e, st.tx, st.key)
    ELSE IF st.op = "UPDATE" THEN update_template(e, st.tx, st.key, st.expr)
    ELSE IF st.op = "INSERT" THEN insert_template(e, st.tx, st.key[1], st.expr)
    ELSE IF st.op = "DELETE" THEN delete_template(e, st.tx, st.key)
    ELSE IF st.op = "COMMIT" THEN commit_template(e, st.tx)
    ELSE abort_template(e, st.tx)

\* pending_queue[tx].append([ip, code_fragment]); pending_counter += 1
Enqueue(e, t, i, st) ==
    [e EXCEPT !.pending_queue[t] = Append(@, [idx |-> i, st |-> st]),
              !.pending_counter = @ + 1]

\* if stat != TransactionStatus.ABORTED: schedule.append(i)
Scheduled(e, t, i) ==
    IF e.tx[t].status # "aborted" THEN [e EXCEPT !.schedule = Append(@, i)]
    ELSE e

RECURSIVE SortedHeads(_, _)
SortedHeads(pq, T) ==
    IF T = {} THEN << >>
    ELSE LET t == CHOOSE t \in T : \A u \in T : pq[t][1].idx <= pq[u][1].idx
         IN << t >> \o SortedHeads(pq, T \ {t})

\* the transactions that have a deferred statement, oldest statement first
next_possible_fragment(pq) ==
    SortedHeads(pq, { t \in DOMAIN pq : Len(pq[t]) > 0 })

\* a fetch that executes the statement at ip although earlier statements of
\* its transaction are deferred
fetch_past_pending(e) ==
    IF Len(e.code) > 0
    THEN LET i == e.ip
             st == Head(e.code)
             t == st.tx
             Fetched(f) == [f EXCEPT !.ip = @ + 1, !.code = Tail(@)]
         IN Bind(exec_fragment(e, st), LAMBDA r :
                    IF r.e.exc # "none" THEN r.e
                    ELSE IF ~r.success THEN Fetched(Enqueue(r.e, t, i, st))
                    ELSE Fetched(Scheduled(r.e, t, i)))
    ELSE e

\* the statement at ip: deferred behind the deferred statements of its
\* transaction, else executed, and deferred when it did not succeed
fetch(e) ==
    IF Len(e.code) > 0                     \* ip < len(tx_list)
    THEN LET i == e.ip
             st == Head(e.code)
             t == st.tx
             Fetched(f) == [f EXCEPT !.ip = @ + 1, !.code = Tail(@)]
         IN IF Len(e.pending_queue[t]) > 0
            THEN Fetched(Enqueue(e, t, i, st))
            ELSE Bind(exec_fragment(e, st), LAMBDA r :
                    IF r.e.exc # "none" THEN r.e
                    ELSE IF ~r.success THEN Fetched(Enqueue(r.e, t, i, st))
                    ELSE Fetched(Scheduled(r.e, t, i)))
    ELSE e

\* for next_frag in pending_queue[frag[0]][1:]
RECURSIVE drain(_, _, _, _)
drain(e, t, rest, n) ==
    IF rest = << >> THEN [e |-> e, n |-> n]
    ELSE Bind(exec_fragment(e, Head(rest).st), LAMBDA r :
            IF r.e.exc # "none" \/ ~r.success THEN [e |-> r.e, n |-> n]
            ELSE drain(Scheduled([r.e EXCEPT !.pending_counter = @ - 1],
                                 t, Head(rest).idx),
                       t, Tail(rest), n + 1))

\* the body of: for frag in pending_fragments
retry(e, t) ==
    LET q == e.pending_queue[t] IN
    Bind(exec_fragment(e, Head(q).st), LAMBDA r :
       IF r.e.exc # "none" \/ ~r.success THEN r.e
       ELSE Bind(drain([Scheduled(r.e, t, Head(q).idx) EXCEPT
                           !.pending_counter = @ - 1],
                       t, Tail(q), 1), LAMBDA d :
               IF d.e.exc # "none" THEN d.e
               ELSE [d.e EXCEPT !.pending_queue[t] = SubSeq(q, d.n + 1, Len(q))]))

RECURSIVE retry_all(_, _)
retry_all(e, frags) ==
    IF frags = << >> \/ e.exc # "none" THEN e
    ELSE retry_all(retry(e, Head(frags)), Tail(frags))

\* one iteration of the while loop of _execute
iteration(e) ==
    Bind(next_possible_fragment(e.pending_queue), LAMBDA pending_fragments :
       Bind(fetch(e), LAMBDA fetched :
          IF Len(pending_fragments) > 0
          THEN retry_all(fetched, pending_fragments)
          ELSE fetched))

Iterate ==
    /\ ~done /\ exc = "none"
    /\ Len(code) > 0 \/ closed
    /\ \E e \in { iteration(ExCur) } : ExInstall(e)
    \* if ip >= len(tx_list) and pending_counter == 0: break
    /\ done' = /\ exc' = "none" /\ closed
               /\ Len(code') = 0 /\ pending_counter' = 0
    /\ UNCHANGED << Config, RaVars, closed, ended, ncalls, lastop, first_image >>

Execute == Iterate /\ UNCHANGED tx_list

\* the same step, with the transaction of the statement fetched remembered
ExecuteListed ==
    /\ Iterate
    /\ tx_list' = IF ip' > ip THEN Append(tx_list, Head(code).tx) ELSE tx_list

(***************************************************************************)
(* execute_schedule on any well-formed schedule: every transaction starts  *)
(* with BEGIN and ends with COMMIT or ABORT.  The statements are chosen    *)
(* one at a time, each when the executor comes to fetch it; which          *)
(* statement follows does not depend on anything the executor has done.    *)
(***************************************************************************)
Begun(t) == tx[t].status # "none"

Ended(t) == t \in ended

Statements ==
    { Stmt(t, op, InitialLockId, Lit(0)) :
        t \in Tx, op \in { "BEGIN", "COMMIT", "ABORT" } }
    \cup { Stmt(t, op, k, Lit(0)) :
        t \in Tx, op \in { "READ", "DELETE" }, k \in AllKeys(table_dict) }
    \cup { Stmt(t, "UPDATE", k, Lit(v)) :
        t \in Tx, k \in AllKeys(table_dict), v \in Vals }
    \cup { Stmt(t, "INSERT", << n, -1 >>, Lit(v)) :
        t \in Tx, n \in TableNames, v \in Vals }

\* the next statement of the schedule, of which at most n access tables
Offer(st, n) ==
    /\ ~closed /\ ~done /\ exc = "none"
    /\ Len(code) = 0
    /\ IF st.op = "BEGIN"
       THEN ~Begun(st.tx) /\ \A u \in Tx : u < st.tx => Begun(u)
       ELSE Begun(st.tx) /\ ~Ended(st.tx)
    /\ IF st.op \in { "BEGIN", "COMMIT", "ABORT" } THEN ncalls' = ncalls
       ELSE ncalls < n /\ ncalls' = ncalls + 1
    /\ code' = << st >>
    /\ ended' = IF st.op \in { "COMMIT", "ABORT" } THEN ended \cup {st.tx}
                 ELSE ended
    /\ UNCHANGED << Config, RaVars, MvccVars, table_dict, global_lock_dict, tx_id_gen,
                    tx, exc,
                    tx_list, closed, ctx_var, ip, pending_queue,
                    pending_counter,
                    schedule, done, precedence, accessed, lastop,
                    first_image >>

Submit(st) == Offer(st, MaxCalls)

Close ==
    /\ ~closed /\ ~done /\ exc = "none"
    /\ Len(code) = 0
    /\ \A t \in Tx : Begun(t) => Ended(t)
    /\ closed' = TRUE
    /\ UNCHANGED << Config, RaVars, MvccVars, table_dict, global_lock_dict, tx_id_gen,
                    tx, exc,
                    code, tx_list, ended, ctx_var, ip, pending_queue,
                    pending_counter,
                    schedule, done, precedence, accessed, ncalls, lastop,
                    first_image >>

InitExec ==
    Start({ "SERIALIZABLE" }, [n \in TableNames |-> LoadedTable], { << >> },
          FALSE)

NextExec ==
    \/ \E st \in Statements : Submit(st)
    \/ Close
    \/ Execute

SpecExec == InitExec /\ [][NextExec]_vars

(***************************************************************************)
(* The executor at every isolation level, on schedules of at most          *)
(* MaxListed table accesses, with the list of transactions kept.           *)
(***************************************************************************)
MaxListed == 3

InitListed ==
    Start({ "READ_UNCOMMITTED", "READ_COMMITTED", "REPEATABLE_READS",
            "SERIALIZABLE" }, [n \in TableNames |-> LoadedTable], { << >> },
          FALSE)

NextListed ==
    \/ \E st \in Statements : Offer(st, MaxListed)
    \/ Close
    \/ ExecuteListed

SpecListed == InitListed /\ [][NextListed]_vars

(***************************************************************************)
(* Properties of the schedule executor.                                    *)
(***************************************************************************)
Committed == { t \in Tx : tx[t].status = "committed" }

\* the transactions reached from t by one or more edges of E
RECURSIVE ReachedFrom(_, _, _)
ReachedFrom(E, seen, frontier) ==
    LET next == { v \in Tx : \E u \in frontier : << u, v >> \in E } \ seen IN
    IF next = {} THEN seen ELSE ReachedFrom(E, seen \cup next, next)

Acyclic(E) == \A t \in Tx : t \notin ReachedFrom(E, {}, {t})

\* C1: at isolation level serializable, the precedence graph over the
\* transactions that ended committed is acyclic.
C1_CommittedPrecedenceAcyclic ==
    isolation_level = "SERIALIZABLE"
    => Acyclic({ d \in precedence : d[1] \in Committed /\ d[2] \in Committed })

(***************************************************************************)
(* The scenarios: every interleaving of two transaction programs is handed *)
(* to execute_schedule as one schedule.                                    *)
(***************************************************************************)
RECURSIVE Interleavings(_, _)
Interleavings(p, q) ==
    IF p = << >> THEN {q}
    ELSE IF q = << >> THEN {p}
    ELSE { << Head(p) >> \o r : r \in Interleavings(Tail(p), q) }
         \cup { << Head(q) >> \o r : r \in Interleavings(p, Tail(q)) }

NextScenario == Execute

\* S4: both transactions add 10 to the balance they read from row 0
S4Key == << 1, 0 >>

S4Program(t) ==
    << Stmt(t, "BEGIN", InitialLockId, Lit(0)),
       Stmt(t, "READ", S4Key, Lit(0)),
       Stmt(t, "UPDATE", S4Key, VarPlus(10)),
       Stmt(t, "COMMIT", InitialLockId, Lit(0)) >>

InitS4 ==
    Start({ "REPEATABLE_READS" },
          [n \in TableNames |->
              [tuples |-> << << << 0, 100 >> >> >>, deleted_row_ids |-> << >>]],
          Interleavings(S4Program(1), S4Program(2)), TRUE)

SpecS4 == InitS4 /\ [][NextScenario]_vars

S4Balance == Chain(table_dict, S4Key)[1][2]

\* C6 as stated: whatever the interleaving, the final balance of row 0 is 120.
C6_S4FinalBalanceIs120 ==
    done => Len(Chain(table_dict, S4Key)) = 1 /\ S4Balance = 120

\* C6 as amended: whatever the interleaving, at least one of the two
\* transactions ends committed and the final balance of row 0 is 100 plus 10
\* for every transaction that ended committed (120 when both did, 110 when
\* one was aborted as the second pending writer).
C6_S4NoCommittedUpdateLost ==
    done => /\ Committed # {}
            /\ Len(Chain(table_dict, S4Key)) = 1
            /\ S4Balance = 100 + 10 * Cardinality(Committed)

\* both read before either updated: the second pending writer was aborted
C6_Witness ==
    /\ done
    /\ \E t \in Tx : tx[t].status = "aborted"
    /\ \E t \in Tx : tx[t].status = "committed"
    /\ S4Balance = 110

\* S6: the two transactions write rows 0 and 5 in opposite orders
S6Rows(t) == IF t = 1 THEN << 0, 5 >> ELSE << 5, 0 >>

S6Write(t, i) == Stmt(t, "UPDATE", << 1, S6Rows(t)[i] >>, Lit(1))

S6Program(t) ==
    << Stmt(t, "BEGIN", InitialLockId, Lit(0)), S6Write(t, 1), S6Write(t, 2),
       Stmt(t, "COMMIT", InitialLockId, Lit(0)) >>

Pos(sched, st) == CHOOSE i \in 1 .. Len(sched) : sched[i] = st

\* each has done its first write before either does its second
S6Interleaved(sched) ==
    \A t, u \in Tx : Pos(sched, S6Write(t, 1)) < Pos(sched, S6Write(u, 2))

InitS6 ==
    Start({ "READ_UNCOMMITTED", "READ_COMMITTED", "REPEATABLE_READS",
            "SERIALIZABLE" },
          [n \in TableNames |->
              [tuples |-> [i \in 1 .. 6 |-> << << i - 1, 0 >> >>],
               deleted_row_ids |-> << >>]],
          { c \in Interleavings(S6Program(1), S6Program(2)) : S6Interleaved(c) },
          TRUE)

SpecS6 == InitS6 /\ [][NextScenario]_vars

\* C4: in scenario S6, once the executor has come to T2's second write, T2 is
\* aborted (its write lock request was a lock-order violation), and when the
\* executor returns T1 is committed and T2 is aborted.
C4_S6SecondWriteAbortsT2 ==
    /\ (\A i \in 1 .. Len(code) : code[i] # S6Write(2, 2))
       => tx[2].status = "aborted"
    /\ done => tx[1].status = "committed" /\ tx[2].status = "aborted"

(***************************************************************************)
(* The multi-version transactions called directly: begin_transaction, the  *)
(* methods of the transaction objects, commit_transaction and              *)
(* abort_transaction in any interleaving.  The callers respect the         *)
(* methods' assertions: only a running transaction is called.              *)
(***************************************************************************)
MCur ==
    [table_dict |-> table_dict, tx |-> tx, exc |-> exc,
     timestamp_counter |-> timestamp_counter,
     transaction_list |-> transaction_list,
     active_transactions |-> active_transactions]

MInstall(m) ==
    /\ table_dict' = m.table_dict
    /\ tx' = m.tx
    /\ exc' = m.exc
    /\ timestamp_counter' = m.timestamp_counter
    /\ transaction_list' = m.transaction_list
    /\ active_transactions' = m.active_transactions

MRest == << Config, RaVars, ExecVars, global_lock_dict, tx_id_gen, first_image >>

\* the rows were inserted by a transaction that began at timestamp 1 and
\* committed at timestamp 2
MVCCTable(vals) ==
    [tuples |-> [i \in 1 .. Len(vals) |-> << << i - 1, 2, Infinity, vals[i] >> >>],
     deleted_row_ids |-> << >>]

LoadedMVCCTable == MVCCTable(LoadedVals)

\* the state after construction and loading: T the transactions to come,
\* the schedule handed to the executor one of codes
StartMVCCManager(T, td, codes, cl) ==
    /\ isolation_level \in { "SNAPSHOT_ISOLATION", "SERIALIZABLE" }
    /\ use_mvcc = TRUE
    /\ table_dict = td
    /\ global_lock_dict = << >>
    /\ tx_id_gen = 0
    /\ timestamp_counter = 2
    /\ transaction_list =
         << << [commit_ts |-> 2, write_set |-> AllKeys(table_dict)] >> >>
    /\ active_transactions = {}
    /\ tx = [t \in T |-> NoMVCCTx]
    /\ exc = "none"
    /\ code \in codes /\ closed = cl /\ ended = {} /\ ip = 0
    /\ tx_list = << >>
    /\ ctx_var = [t \in Tx |-> None]
    /\ pending_queue = [t \in Tx |-> << >>]
    /\ pending_counter = 0
    /\ schedule = << >>
    /\ done = FALSE
    /\ precedence = {}
    /\ accessed = << >>
    /\ ncalls = 0
    /\ lastop = Call("init", 0, InitialLockId, TRUE, None)
    /\ first_image = [t \in Tx |-> << >>]
    /\ NoPlan

\* the whole schedule is handed over at the start
StartMVCC(T, td, codes) == StartMVCCManager(T, td, codes, TRUE)

InitMVCC == StartMVCC(Tx, [n \in TableNames |-> LoadedMVCCTable], { << >> })

\* the transactions are numbered in the order they begin
MBegin(t) ==
    /\ exc = "none" /\ tx[t].status = "none"
    /\ \A u \in Tx : u < t => tx[u].status # "none"
    /\ MInstall(begin_transaction(MCur, t))
    /\ lastop' = Call("begin", t, InitialLockId, TRUE, None)
    /\ UNCHANGED << MRest, ncalls >>

MRead(t, k) ==
    /\ CanCall(t)
    /\ LET r == mvcc_read(MCur, t, k) IN
        /\ MInstall(r.s)
        /\ lastop' = Call("read", t, k, r.success, r.row)
    /\ UNCHANGED MRest

MUpdate(t, k, v) ==
    /\ CanCall(t)
    /\ LET r == mvcc_update(MCur, t, k, [val |-> v]) IN
        /\ MInstall(r.s)
        /\ lastop' = Call("update", t, k, r.success, r.row)
    /\ UNCHANGED MRest

MInsert(t, n, v) ==
    /\ CanCall(t)
    /\ LET r == mvcc_insert(MCur, t, n, [val |-> v]) IN
        /\ MInstall(r.s)
        /\ lastop' = Call("insert", t, r.key, TRUE, None)
    /\ UNCHANGED MRest

MDelete(t, k) ==
    /\ CanCall(t)
    /\ LET r == mvcc_delete(MCur, t, k) IN
        /\ MInstall(r.s)
        /\ lastop' = Call("delete", t, k, r.success, r.row)
    /\ UNCHANGED MRest

MCommit(t) ==
    /\ exc = "none" /\ tx[t].status = "running"
    /\ LET r == commit_transaction(MCur, t) IN
        /\ MInstall(r.s)
        /\ lastop' = Call("commit", t, InitialLockId, r.ret, None)
    /\ UNCHANGED << MRest, ncalls >>

MAbort(t) ==
    /\ exc = "none" /\ tx[t].status = "running"
    /\ MInstall(abort_transaction(MCur, t))
    /\ lastop' = Call("rollback", t, InitialLockId, TRUE, None)
    /\ UNCHANGED << MRest, ncalls >>

NextMVCC ==
    \E t \in Tx :
        \/ MBegin(t)
        \/ \E k \in AllKeys(table_dict) : MRead(t, k)
        \/ \E k \in AllKeys(table_dict), v \in Vals : MUpdate(t, k, v)
        \/ \E n \in TableNames, v \in Vals : MInsert(t, n, v)
        \/ \E k \in AllKeys(table_dict) : MDelete(t, k)
        \/ MCommit(t)
        \/ MAbort(t)

SpecMVCC == InitMVCC /\ [][NextMVCC]_vars

(***************************************************************************)
(* The multi-version transactions among idle ones: next to the             *)
(* transactions of Tx, which are called as above, enough transactions      *)
(* begin, and then stay active, for the commits to find more than          *)
(* CleanThreshold active transactions.                                     *)
(***************************************************************************)
Idle == (Cardinality(Tx) + 1) .. (CleanThreshold + 2)

\* the idle transactions begin after those of Tx, before the first call
IdleBegin(t) ==
    /\ exc = "none" /\ tx[t].status = "none"
    /\ ncalls = 0 /\ \A u \in DOMAIN tx : u < t => tx[u].status = "running"
    /\ MInstall(begin_transaction(MCur, t))
    /\ lastop' = Call("begin", t, InitialLockId, TRUE, None)
    /\ UNCHANGED << MRest, ncalls >>

InitCrowd ==
    StartMVCC(Tx \cup Idle, [n \in TableNames |-> LoadedMVCCTable], { << >> })

NextCrowd ==
    \/ NextMVCC
    \/ \E t \in Idle : IdleBegin(t)

SpecCrowd == InitCrowd /\ [][NextCrowd]_vars

(***************************************************************************)
(* Scenario S5 (write skew): rows 0 and 1 hold 1; T1 reads row 0 and sets   *)
(* row 1 to 0, T2 reads row 1 and sets row 0 to 0.  Every interleaving in  *)
(* which both have begun before either commits is handed to                *)
(* execute_schedule.                                                       *)
(***************************************************************************)
S5Reads(t) == << 1, t - 1 >>

S5Writes(t) == << 1, 2 - t >>

S5Program(t) ==
    << Stmt(t, "BEGIN", InitialLockId, Lit(0)),
       Stmt(t, "READ", S5Reads(t), Lit(0)),
       Stmt(t, "UPDATE", S5Writes(t), Lit(0)),
       Stmt(t, "COMMIT", InitialLockId, Lit(0)) >>

S5Concurrent(sched) ==
    \A t, u \in Tx :
        Pos(sched, Stmt(t, "BEGIN", InitialLockId, Lit(0)))
            < Pos(sched, Stmt(u, "COMMIT", InitialLockId, Lit(0)))

InitS5 ==
    StartMVCC(Tx, [n \in TableNames |-> MVCCTable(<< 1, 1 >>)],
              { c \in Interleavings(S5Program(1), S5Program(2)) :
                  S5Concurrent(c) })

SpecS5 == InitS5 /\ [][NextScenario]_vars

\* C14: in scenario S5, when the executor returns, both transactions are
\* committed under snapshot-isolation, and at most one of them is committed
\* under serializable, whatever the interleaving.
C14_S5WriteSkew ==
    done => IF isolation_level = "SNAPSHOT_ISOLATION"
            THEN Committed = Tx
            ELSE Cardinality(Committed) <= 1

\* under serializable the executor has returned with one transaction
\* committed and the other, which committed second, rolled back
C14_Witness ==
    /\ done /\ isolation_level = "SERIALIZABLE"
    /\ \E t, u \in Tx :
          /\ tx[t].status = "committed" /\ tx[u].status = "aborted"
          /\ tx[t].write_set = {S5Writes(t)}
          /\ Chain(table_dict, S5Writes(t))[2][get_attribute_index("val")] = 0
          /\ Len(Chain(table_dict, S5Writes(u))) = 1

(***************************************************************************)
(* Properties of the multi-version transactions.                           *)
(***************************************************************************)
BeginTs(v) == v[get_attribute_index("begin_ts")]

EndTs(v) == v[get_attribute_index("end_ts")]

\* C9: every version of a multi-version table has begin_ts < end_ts, and the
\* intervals [begin_ts, end_ts) of two versions of one row do not overlap.
C9_VersionIntervalsDisjoint ==
    \A k \in AllKeys(table_dict) :
        LET row == Chain(table_dict, k) IN
        /\ \A i \in 1 .. Len(row) : BeginTs(row[i]) < EndTs(row[i])
        /\ \A i, j \in 1 .. Len(row) :
              i < j => \/ EndTs(row[i]) <= BeginTs(row[j])
                       \/ EndTs(row[j]) <= BeginTs(row[i])

\* the versions of row k that transaction t is to see
Visible(t, k) ==
    LET row == Chain(table_dict, k) IN
    { i \in 1 .. Len(row) :
        BeginTs(row[i]) <= tx[t].begin_ts /\ tx[t].begin_ts < EndTs(row[i]) }

\* C10: a successful read of a row that the reading transaction has not
\* modified returns the one version with begin_ts <= T.begin_ts < end_ts,
\* which is the version committed last before T began.
C10_SnapshotReadReturnsVisibleVersion ==
    (/\ lastop.op = "read" /\ lastop.success
     /\ lastop.key \notin DOMAIN tx[lastop.tx].local_updates)
    => LET row == Chain(table_dict, lastop.key)
           seen == Visible(lastop.tx, lastop.key)
       IN /\ Cardinality(seen) = 1
          /\ \A i \in seen : lastop.row = tuple_to_dict(row[i])
          /\ \A i \in 1 .. Len(row) :
                BeginTs(row[i]) <= tx[lastop.tx].begin_ts
                => BeginTs(row[i]) <= lastop.row.begin_ts

\* C11: when a transaction that deleted row r commits with commit_ts c, every
\* version of r that was visible to it has end_ts = c afterwards (so that a
\* transaction beginning after c finds no visible version of r).
C11_CommittedDeleteEndsVisibleVersion ==
    [][\A t \in Tx :
          (tx[t].status = "running" /\ tx'[t].status = "committed")
          => \A k \in DOMAIN tx[t].local_updates :
                tx[t].local_updates[k].end_ts = 0
                => \A i \in Visible(t, k) :
                      EndTs(Chain(table_dict', k)[i]) = tx'[t].commit_ts]_vars

\* C12: there are never two committed transactions T and U with
\* T.begin_ts < U.commit_ts < T.commit_ts whose write sets share a key.
C12_FirstCommitterWins ==
    \A t, u \in DOMAIN tx :
        (/\ tx[t].status = "committed" /\ tx[u].status = "committed"
         /\ tx[t].begin_ts < tx[u].commit_ts
         /\ tx[u].commit_ts < tx[t].commit_ts)
        => tx[t].write_set \cap tx[u].write_set = {}

\* the intervals [begin_ts, commit_ts] of two committed transactions overlap
Overlap(t, u) ==
    /\ tx[t].status = "committed" /\ tx[u].status = "committed"
    /\ tx[t].begin_ts <= tx[u].commit_ts
    /\ tx[u].begin_ts <= tx[t].commit_ts

\* C13: at isolation level serializable, two committed multi-version
\* transactions whose intervals overlap have disjoint write sets, and neither
\* wrote a key that the other read from a table.
C13_OverlappingCommittedDoNotConflict ==
    isolation_level = "SERIALIZABLE"
    => \A t, u \in DOMAIN tx :
          (t # u /\ Overlap(t, u))
          => /\ tx[t].write_set \cap tx[u].write_set = {}
             /\ tx[t].write_set \cap tx[u].committed_reads = {}

\* the committed transactions: what commit_transaction has put on a list
CommittedList ==
    UNION { { transaction_list[l][i] : i \in 1 .. Len(transaction_list[l]) } :
            l \in 1 .. Len(transaction_list) }

\* C15: the begin_ts of every version in a multi-version table is the
\* commit_ts of exactly one committed transaction.
C15_VersionBeginsAtOneCommit ==
    \A k \in AllKeys(table_dict) :
        LET row == Chain(table_dict, k) IN
        \A i \in 1 .. Len(row) :
            Cardinality({ o \in CommittedList :
                            o.commit_ts = BeginTs(row[i]) }) = 1

\* C16: a step of a multi-version transaction that is not a successful
\* commit (read, update, insert, delete, rollback, refused commit) leaves
\* every table unchanged: version chains, row slots and free list.
C16_OnlyCommitChangesTables ==
    [][(lastop'.op \in { "read", "update", "insert", "delete", "rollback" }
        \/ (lastop'.op = "commit" /\ ~lastop'.success))
       => table_dict' = table_dict]_vars

(***************************************************************************)
(* Properties of the lock-based transactions.                              *)
(***************************************************************************)
HoldsWriteLock(txs, locks, t, k) ==
    /\ k \in txs[t].write_lock_list_local
    /\ k \in DOMAIN locks
    /\ locks[k].active_writer

\* C2: when a lock-based transaction is rolled back, every row it updated,
\* deleted or inserted holds again the version chain it had before the
\* transaction first changed it (the empty chain for an inserted row).
C2_RollbackRestoresPreImages ==
    [][\A t \in Tx :
          (tx[t].status = "running" /\ tx'[t].status = "aborted")
          => \A k \in DOMAIN first_image'[t] :
                Chain(table_dict', k) = first_image'[t][k]]_vars

\* C3: every step that changes the version chain of a row is made by a
\* transaction that holds the write lock on the row's key (before the step,
\* as in rollback, or after it, as in update, insert and delete).
C3_MutationOnlyUnderWriteLock ==
    [][\A k \in AllKeys(table_dict') :
          Chain(table_dict, k) # Chain(table_dict', k)
          => \/ HoldsWriteLock(tx, global_lock_dict, lastop'.tx, k)
             \/ HoldsWriteLock(tx', global_lock_dict', lastop'.tx, k)]_vars

\* C5: the keys on which a transaction is granted a read or write lock are
\* granted in non-decreasing lexicographic order.
C5_LocksGrantedInOrder ==
    \A t \in Tx :
        \A i, j \in 1 .. Len(tx[t].lock_order) :
            i < j => ~KeyLess(tx[t].lock_order[j], tx[t].lock_order[i])

\* C7: in every lock record an active writer implies a reader count of 0.
C7_WriterExcludesReaders ==
    \A k \in DOMAIN global_lock_dict :
        global_lock_dict[k].active_writer => global_lock_dict[k].readers = 0

\* a transaction that waited as pending writer now holds the write lock
C7_Witness ==
    \E t \in Tx : \E k \in tx[t].write_lock_list_local :
        /\ tx[t].status = "running"
        /\ k \in DOMAIN global_lock_dict
        /\ global_lock_dict[k].active_writer
        /\ global_lock_dict[k].requestor = tx[t].tx_id

\* C8 as stated: a recorded pending writer implies that no writer is active
\* and that the reader count is greater than 0.
C8_PendingWriterImpliesReaders ==
    \A k \in DOMAIN global_lock_dict :
        global_lock_dict[k].requestor # None
        => ~global_lock_dict[k].active_writer /\ global_lock_dict[k].readers > 0

\* C8 as amended: at the moment a pending writer is recorded on a lock
\* record, no writer is active on it and its reader count is greater than 0.
C8_PendingWriterRecordedAmongReaders ==
    [][\A k \in DOMAIN global_lock_dict' :
          LET old == IF k \in DOMAIN global_lock_dict
                     THEN global_lock_dict[k].requestor ELSE None
              new == global_lock_dict'[k]
          IN (new.requestor # None /\ new.requestor # old)
             => ~new.active_writer /\ new.readers > 0]_vars

\* a failed upgrade has just recorded its transaction as pending writer
C8_Witness ==
    /\ lastop.op = "update" /\ ~lastop.success
    /\ tx[lastop.tx].status = "running"
    /\ lastop.key \in DOMAIN global_lock_dict
    /\ global_lock_dict[lastop.key].requestor = tx[lastop.tx].tx_id

\* no transaction is running: each one that began has committed or aborted
(***************************************************************************)
(* The order of the statements of one transaction.                         *)
(***************************************************************************)
\* the transaction of the statement at schedule position idx (from 0)
TxOf(idx) == tx_list[idx + 1]

\* C17: the executed statements of one transaction appear in the executed
\* schedule in the order of the input schedule, none of them is executed
\* while an earlier statement of the transaction waits in its queue, and
\* the queue of a transaction holds its statements in input order.
C17_StatementsOfATransactionInOrder ==
    /\ \A a, b \in 1 .. Len(schedule) :
            (a < b /\ TxOf(schedule[a]) = TxOf(schedule[b]))
            => schedule[a] < schedule[b]
    \* an exception ends _execute before it stores the shortened queue
    /\ \A t \in Tx : exc = "none" =>
         LET q == pending_queue[t] IN
         /\ \A j \in 1 .. Len(q) : q[j].idx < ip /\ TxOf(q[j].idx) = t
         /\ \A i, j \in 1 .. Len(q) : i < j => q[i].idx < q[j].idx
         /\ \A a \in 1 .. Len(schedule) : \A j \in 1 .. Len(q) :
                TxOf(schedule[a]) = t => schedule[a] < q[j].idx

\* a deferred statement ran after a later statement of another transaction,
\* and a further statement of its transaction ran after it
C17_Witness ==
    \E a, b, c \in 1 .. Len(schedule) :
        /\ a < b /\ b < c
        /\ schedule[a] > schedule[b]
        /\ TxOf(schedule[a]) # TxOf(schedule[b])
        /\ TxOf(schedule[b]) = TxOf(schedule[c])

(***************************************************************************)
(* The status of a transaction.                                            *)
(***************************************************************************)
Terminated(t) == tx[t].status \in { "committed", "aborted" }

SameData(e, f) ==
    /\ e.table_dict = f.table_dict
    /\ e.global_lock_dict = f.global_lock_dict
    /\ e.tx = f.tx
    /\ e.exc = f.exc

\* C18: a transaction is created running; once committed or aborted its
\* status never changes again: commit returns False and rollback returns
\* with nothing changed, and every schedule statement of the transaction
\* that the executor runs afterwards succeeds and changes no table, no lock
\* record and no transaction.
C18_StatusIsOneWay ==
    [][\A t \in Tx :
        /\ (tx[t].status = "none" /\ tx'[t].status # "none")
            => tx'[t].status = "running"
        /\ Terminated(t)
            => /\ tx'[t].status = tx[t].status
               /\ ~commit(ExCur, t).ret
               /\ SameData(commit(ExCur, t).s, ExCur)
               /\ SameData(rollback(ExCur, t), ExCur)
               /\ \A st \in Statements :
                     (st.tx = t /\ st.op # "BEGIN")
                     => /\ exec_fragment(ExCur, st).success
                        /\ SameData(exec_fragment(ExCur, st).e, ExCur)]_vars

\* the executor has aborted a transaction that has deferred statements, and
\* the other transaction is committed
C18_Witness ==
    \E t, u \in Tx :
        /\ tx[t].status = "aborted" /\ Len(pending_queue[t]) > 0
        /\ tx[u].status = "committed"
        /\ exc = "none"

NoneRunning == \A t \in Tx : tx[t].status # "running"

NoLockHeld ==
    \A k \in DOMAIN global_lock_dict :
        global_lock_dict[k].readers = 0 /\ ~global_lock_dict[k].active_writer

\* C19: the step in which a lock-based transaction commits or is rolled back
\* takes its reader off the record of every key in its read-lock list and
\* leaves no active writer on any key in its write-lock list; and whenever no
\* transaction is running, every lock record still registered has reader
\* count 0 and no active writer.
C19_LocksReleasedAtEnd ==
    [][/\ \A t \in Tx :
            (tx[t].status = "running" /\ tx'[t].status # "running")
            => /\ \A k \in tx[t].read_lock_list_local :
                     \/ k \notin DOMAIN global_lock_dict'
                     \/ /\ k \in DOMAIN global_lock_dict
                        /\ global_lock_dict'[k].readers
                              = global_lock_dict[k].readers - 1
               /\ \A k \in tx[t].write_lock_list_local :
                     \/ k \notin DOMAIN global_lock_dict'
                     \/ ~global_lock_dict'[k].active_writer
       /\ NoneRunning' => NoLockHeld']_vars

\* the last running transaction has committed; it held a write lock, and the
\* record of a read lock is still registered
C19_Witness ==
    /\ lastop.op = "commit" /\ lastop.success
    /\ NoneRunning
    /\ tx[lastop.tx].write_lock_list_local # {}
    /\ \E u \in Tx : \E k \in tx[u].read_lock_list_local :
          k \in DOMAIN global_lock_dict

(***************************************************************************)
(* Repeatable reads.                                                       *)
(***************************************************************************)
Repeatable == isolation_level \in { "REPEATABLE_READS", "SERIALIZABLE" }

KeepsReadLock(t, k) ==
    /\ k \in tx[t].read_lock_list_local
    /\ k \in DOMAIN global_lock_dict
    /\ global_lock_dict[k].readers > 0

KeepsWriteLock(t, k) ==
    /\ k \in tx[t].write_lock_list_local
    /\ k \in DOMAIN global_lock_dict
    /\ global_lock_dict[k].active_writer

\* a successful read returns the row the transaction keeps for the key, and
\* a running transaction keeps the rows it has
ReadsRepeat ==
    /\ (lastop'.op = "read" /\ lastop'.success)
        => /\ lastop'.key \in DOMAIN tx'[lastop'.tx].local_reads
           /\ lastop'.row = tx'[lastop'.tx].local_reads[lastop'.key]
    /\ \A t \in Tx : \A k \in DOMAIN tx[t].local_reads :
            (tx[t].status = "running" /\ tx'[t].status = "running")
            => /\ k \in DOMAIN tx'[t].local_reads
               /\ tx'[t].local_reads[k] = tx[t].local_reads[k]

\* C20 as stated: under repeatable-reads and serializable a running
\* transaction holds the read lock of every key it has read, and two
\* successful reads of one key by one running transaction return the same
\* row.
C20_ReadLockKeptAsStated ==
    [][Repeatable =>
        /\ \A t \in Tx : tx'[t].status = "running" =>
              \A k \in DOMAIN tx'[t].local_reads : KeepsReadLock(t, k)'
        /\ ReadsRepeat]_vars

\* C20, amended: under repeatable-reads and serializable a running
\* transaction holds, for every key it has read, the read lock or the write
\* lock it took on the key, and two successful reads of one key by one
\* running transaction return the same row.
C20_RepeatableReads ==
    [][Repeatable =>
        /\ \A t \in Tx : tx'[t].status = "running" =>
              \A k \in DOMAIN tx'[t].local_reads :
                  KeepsReadLock(t, k)' \/ KeepsWriteLock(t, k)'
        /\ ReadsRepeat]_vars

\* a transaction reads again a row that another transaction has read and
\* that it has itself changed since its first read
C20_Witness ==
    /\ Repeatable
    /\ lastop.op = "read" /\ lastop.success
    /\ tx[lastop.tx].status = "running"
    /\ KeepsWriteLock(lastop.tx, lastop.key)
    /\ lastop.key \in DOMAIN tx[lastop.tx].original_row
    /\ \E u \in Tx \ {lastop.tx} : lastop.key \in DOMAIN tx[u].local_reads

(***************************************************************************)
(* Dirty reads.                                                            *)
(***************************************************************************)
\* the read that the last step made went to the table, to a row that the
\* reader has not changed itself
ReadFromTable(t, k) ==
    /\ ~(Repeatable /\ k \in DOMAIN tx[t].local_reads)
    /\ k \notin DOMAIN first_image[t]

\* C21: under read-committed, repeatable-reads and serializable, a
\* successful read by a transaction of a row that it has not changed itself
\* and that another transaction has changed without having committed
\* returns the version the row had before that transaction changed it.
C21_NoDirtyRead ==
    [][(/\ isolation_level # "READ_UNCOMMITTED"
        /\ lastop'.op = "read" /\ lastop'.success
        /\ ReadFromTable(lastop'.tx, lastop'.key))
       => \A u \in Tx \ {lastop'.tx} :
            (tx[u].status # "committed" /\ lastop'.key \in DOMAIN first_image[u])
            => LET before == first_image[u][lastop'.key] IN
               /\ Len(before) > 0
               /\ lastop'.row = tuple_to_dict(before[Len(before)])]_vars

(***************************************************************************)
(* The read lock of a read-committed read.                                 *)
(***************************************************************************)
\* the readers counted on key k; a key without lock record has none
Readers(locks, k) == IF k \in DOMAIN locks THEN locks[k].readers ELSE 0

\* C22: under read-committed, after a successful read of key k by
\* transaction T, k is not in T's read-lock list and the readers counted on
\* k are as many as before the read.
C22_ReadCommittedReleasesReadLock ==
    [][(/\ isolation_level = "READ_COMMITTED"
        /\ lastop'.op = "read" /\ lastop'.success)
       => /\ lastop'.key \notin tx'[lastop'.tx].read_lock_list_local
          /\ Readers(global_lock_dict', lastop'.key)
               = Readers(global_lock_dict, lastop'.key)]_vars

\* a read-committed read has succeeded on a key that had no lock record,
\* while the other transaction is running and holds a write lock
C22_Witness ==
    /\ isolation_level = "READ_COMMITTED"
    /\ lastop.op = "read" /\ lastop.success
    /\ lastop.key \in DOMAIN global_lock_dict
    /\ global_lock_dict[lastop.key].readers = 0
    /\ \E u \in Tx \ {lastop.tx} :
          tx[u].status = "running" /\ tx[u].write_lock_list_local # {}

(***************************************************************************)
(* execute_schedule: the executed schedule that is reported.               *)
(***************************************************************************)
\* list.remove(x): the list without the first x
RECURSIVE ListRemove(_, _)
ListRemove(list, x) ==
    IF list = << >> THEN << >>
    ELSE IF Head(list) = x THEN Tail(list)
    ELSE << Head(list) >> \o ListRemove(Tail(list), x)

\* an execute_schedule that reports the schedule as _execute returned it
executed_schedule_as_returned(sched, i) == sched

\* for i in range(len(tx_list)): from index i on
RECURSIVE executed_schedule(_, _)
executed_schedule(sched, i) ==
    IF i >= Len(tx_list) THEN sched
    ELSE IF InSeq(i, sched) /\ tx[TxOf(i)].status = "aborted"
    THEN executed_schedule(ListRemove(sched, i), i + 1)
    ELSE executed_schedule(sched, i + 1)

Occurrences(list, x) == Cardinality({ j \in 1 .. Len(list) : list[j] = x })

\* C23: when execute_schedule has run a schedule to its end, the executed
\* schedule it reports holds no statement index of a transaction that ended
\* aborted and holds exactly once every statement index of every
\* transaction that ended committed.
C23_ExecutedScheduleOfCommitted ==
    (done /\ exc = "none")
    => \A i \in 0 .. Len(tx_list) - 1 :
         /\ tx[TxOf(i)].status = "aborted"
            => Occurrences(executed_schedule(schedule, 0), i) = 0
         /\ tx[TxOf(i)].status = "committed"
            => Occurrences(executed_schedule(schedule, 0), i) = 1

\* a schedule has run to its end, one transaction committed, and statements
\* that the other executed before it was aborted were taken out
C23_Witness ==
    /\ done /\ exc = "none"
    /\ \E t \in Tx : tx[t].status = "committed"
    /\ \E i \in 0 .. Len(tx_list) - 1 :
          /\ tx[TxOf(i)].status = "aborted"
          /\ InSeq(i, schedule)
    /\ \E a, b \in 1 .. Len(schedule) : a < b /\ schedule[a] > schedule[b]

(***************************************************************************)
(* Statements that meet a missing row, a lock that is not available or a   *)
(* key below the last key locked.                                          *)
(***************************************************************************)
MissingRow(k) == Len(Chain(table_dict, k)) = 0

LockedByAnother(t, k) ==
    /\ k \in DOMAIN global_lock_dict
    /\ k \notin tx[t].read_lock_list_local \cup tx[t].write_lock_list_local
    /\ global_lock_dict[k].active_writer \/ global_lock_dict[k].readers > 0

OutOfLockOrder(t, k) == KeyLess(k, tx[t].last_lock_id)

\* the key that an insert into table n takes next
NextKey(n) == << n, get_next_row_id(table_dict[n]).rowid >>

\* the key of the row that statement st works on
StatementKey(st) == IF st.op = "INSERT" THEN NextKey(st.key[1]) ELSE st.key

\* C24: a read, update, insert or delete statement of a running transaction
\* that meets a missing row, a lock held by another transaction or a
\* lock-order violation does not make the executor stop with an exception
\* or a failed assertion.
C24_ErrorsAreValues ==
    exc = "none"
    => \A st \in Statements :
         (/\ st.op \in { "READ", "UPDATE", "INSERT", "DELETE" }
          /\ tx[st.tx].status = "running"
          /\ \/ MissingRow(StatementKey(st)) /\ st.op # "INSERT"
             \/ LockedByAnother(st.tx, StatementKey(st))
             \/ OutOfLockOrder(st.tx, StatementKey(st)))
         => exec_fragment(ExCur, st).e.exc = "none"


(***************************************************************************)
(* src/ra/relation.py: relations and the sorted secondary index.           *)
(***************************************************************************)
MaxTuples == 3      \* tuples of the relation an index is built on

\* the transaction manager, constructed and left alone
TmVars == << isolation_level, use_mvcc, table_dict, global_lock_dict,
             tx_id_gen, timestamp_counter, transaction_list,
             active_transactions, tx, exc, code, tx_list, closed, ended,
             ctx_var, ip, pending_queue, pending_counter, schedule, done,
             precedence, accessed, ncalls, lastop, first_image >>

TmIdle ==
    StartTM({ "SERIALIZABLE" }, [n \in TableNames |-> LoadedTable], { << >> }, TRUE)

\* Relation.__init__ followed by add_tuple for each of tuples; indexes holds
\* the keys of the dictionary Relation.indexes
Relation(name, attrs, tuples) ==
    [name |-> name, attributes |-> attrs, tuples |-> tuples, indexes |-> {}]

\* Relation.get_attribute_index, counted from 1 as sequences are
attribute_index_of(rel, attribute) ==
    CHOOSE i \in 1 .. Len(rel.attributes) : rel.attributes[i] = attribute

\* the orders in which a Python set may hand out its elements
Orderings(S) ==
    { o \in [1 .. Cardinality(S) -> S] : \A t \in S : \E i \in DOMAIN o : o[i] = t }

\* list.sort(key = sort_by_key): stable, ascending by the first component
RECURSIVE sort_by_key(_)
sort_by_key(d) ==
    IF d = << >> THEN << >>
    ELSE LET m == CHOOSE x \in { d[i][1] : i \in DOMAIN d } :
                      \A i \in DOMAIN d : x <= d[i][1] IN
         SelectSeq(d, LAMBDA e : e[1] = m)
             \o sort_by_key(SelectSeq(d, LAMBDA e : e[1] # m))

\* Index.__init__; order is the order in which relation.tuples was iterated
Index(relation, attribute, order) ==
    LET attribute_index == attribute_index_of(relation, attribute)
        data == sort_by_key([i \in DOMAIN order |->
                                << order[i][attribute_index], order[i] >>]) IN
    [relation |-> relation, attribute |-> attribute, data |-> data,
     keys |-> [i \in DOMAIN data |-> data[i][1]]]

\* bisect.bisect_left and bisect_right on a[lo:hi], positions counted from 0
RECURSIVE bisect_left(_, _, _, _)
bisect_left(a, x, lo, hi) ==
    IF lo >= hi THEN lo
    ELSE LET mid == (lo + hi) \div 2 IN
         IF a[mid + 1] < x THEN bisect_left(a, x, mid + 1, hi)
         ELSE bisect_left(a, x, lo, mid)

RECURSIVE bisect_right(_, _, _, _)
bisect_right(a, x, lo, hi) ==
    IF lo >= hi THEN lo
    ELSE LET mid == (lo + hi) \div 2 IN
         IF x < a[mid + 1] THEN bisect_right(a, x, lo, mid)
         ELSE bisect_right(a, x, mid + 1, hi)

\* Index.index, find_lt, find_le, find_gt, find_ge
index_of(a, x) ==
    LET i == bisect_left(a, x, 0, Len(a)) IN
    IF i # Len(a) /\ a[i + 1] = x THEN i ELSE None

find_lt(a, x) ==
    LET i == bisect_left(a, x, 0, Len(a)) IN IF i # 0 THEN i - 1 ELSE None

find_le(a, x) ==
    LET i == bisect_right(a, x, 0, Len(a)) IN IF i # 0 THEN i - 1 ELSE None

find_gt(a, x) ==
    LET i == bisect_right(a, x, 0, Len(a)) IN IF i # Len(a) THEN i ELSE None

find_ge(a, x) ==
    LET i == bisect_left(a, x, 0, Len(a)) IN IF i # Len(a) THEN i ELSE None

\* the functions of the module operator that Index.get tells apart
CompOperators == { "eq", "lt", "le", "gt", "ge" }

Compare(comp_operator, x, y) ==
    CASE comp_operator = "eq" -> x = y
      [] comp_operator = "lt" -> x < y
      [] comp_operator = "le" -> x <= y
      [] comp_operator = "gt" -> x > y
      [] comp_operator = "ge" -> x >= y

Returned(res) == [res |-> res, exc |-> "none"]

\* the loop of the == branch reads data[i] before it compares i with the length
RECURSIVE get_eq(_, _, _, _)
get_eq(ix, key, i, res) ==
    IF i >= Len(ix.data) THEN [res |-> res, exc |-> "IndexError"]
    ELSE IF ix.data[i + 1][1] = key /\ i < Len(ix.data)
         THEN get_eq(ix, key, i + 1, Append(res, ix.data[i + 1][2]))
         ELSE Returned(res)

\* the loops of the > and >= branches, walking up
RECURSIVE get_up(_, _, _, _, _)
get_up(ix, comp_operator, key, i, res) ==
    IF i < Len(ix.data) /\ Compare(comp_operator, ix.data[i + 1][1], key)
    THEN get_up(ix, comp_operator, key, i + 1, Append(res, ix.data[i + 1][2]))
    ELSE Returned(res)

\* the loops of the < and <= branches, walking down
RECURSIVE get_down(_, _, _, _, _)
get_down(ix, comp_operator, key, i, res) ==
    IF i >= 0 /\ Compare(comp_operator, ix.data[i + 1][1], key)
    THEN get_down(ix, comp_operator, key, i - 1, Append(res, ix.data[i + 1][2]))
    ELSE Returned(res)

\* Index.get
get(ix, comp_operator, key) ==
    LET i == CASE comp_operator = "eq" -> index_of(ix.keys, key)
               [] comp_operator = "gt" -> find_gt(ix.keys, key)
               [] comp_operator = "ge" -> find_ge(ix.keys, key)
               [] comp_operator = "lt" -> find_lt(ix.keys, key)
               [] comp_operator = "le" -> find_le(ix.keys, key) IN
    IF i = None THEN Returned(<< >>)
    ELSE IF comp_operator = "eq" THEN get_eq(ix, key, i, << >>)
    ELSE IF comp_operator \in { "gt", "ge" } THEN get_up(ix, comp_operator, key, i, << >>)
    ELSE get_down(ix, comp_operator, key, i, << >>)

\* the values of the indexed relation R(a, b), and the keys looked up: one
\* below the smallest value, every value, and one above the largest
IndexedValues == 1 .. 3
Payloads == 1 .. 2
ProbeKeys == 0 .. 4

InitIndex ==
    /\ TmIdle
    /\ \E T \in SUBSET (IndexedValues \X Payloads) :
          /\ Cardinality(T) <= MaxTuples
          /\ relations = [n \in { "R" } |-> Relation("R", << "a", "b" >>, T)]
    /\ index = Null /\ got = Null
    /\ ops = << >> /\ root = None /\ rule = Null
    /\ applied = << >> /\ raised = "none" /\ plan0 = Null

PlanVars == << ops, root, rule, applied, raised, plan0 >>

\* Index(relation, attribute)
NewIndex(attribute) ==
    /\ index = Null
    /\ \E order \in Orderings(relations["R"].tuples) :
          index' = Index(relations["R"], attribute, order)
    /\ UNCHANGED << TmVars, PlanVars, relations, got >>

\* index.get(comp_operator, key)
Get(comp_operator, key) ==
    /\ index # Null
    /\ got' = [comp_operator |-> comp_operator, key |-> key]
                  @@ get(index, comp_operator, key)
    /\ UNCHANGED << TmVars, PlanVars, relations, index >>

NextIndex ==
    \/ \E attribute \in { "a", "b" } : NewIndex(attribute)
    \/ \E comp_operator \in CompOperators, key \in ProbeKeys : Get(comp_operator, key)

SpecIndex == InitIndex /\ [][NextIndex]_vars

\* the tuples of the indexed relation whose indexed attribute compares as asked
Matching(ix, comp_operator, key) ==
    { t \in ix.relation.tuples :
        Compare(comp_operator, t[attribute_index_of(ix.relation, ix.attribute)], key) }

\* C29: for every relation, indexed attribute, comparison and key (the
\* smallest key, the largest key and absent keys included), Index.get returns
\* without error exactly the tuples of the relation that compare as asked
\* with the key, each of them once
C29_IndexGetReturnsMatches ==
    got # Null =>
        /\ got.exc = "none"
        /\ { got.res[i] : i \in DOMAIN got.res } = Matching(index, got.comp_operator, got.key)
        /\ Len(got.res) = Cardinality(Matching(index, got.comp_operator, got.key))


(***************************************************************************)
(* src/ra/operators_log.py and operators_phys.py: the operators of a plan. *)
(* An operator object is a record; ops[i] is the object of identity i.     *)
(* A comma separated string is held as the list of its stripped items,     *)
(* tagged "str"; a Python list is tagged "list".  A predicate              *)
(* 'p1 and ... and pn' is the sequence of its comparisons.                 *)
(***************************************************************************)
Str(items) == [type |-> "str", items |-> items]
List(items) == [type |-> "list", items |-> items]

\* ','.join(lst) read back by split(','): the empty string has one empty item
list_to_str(lst) == Str(IF lst = << >> THEN << "" >> ELSE lst)

\* utils.str_to_list: string.split(',') exists on strings only
str_to_list(string) ==
    IF string.type = "str" THEN [exc |-> "none", list |-> string.items]
    ELSE [exc |-> "AttributeError", list |-> << >>]

\* a comparison 'lhs op rhs'; rhs is an attribute name, or a constant when
\* rhs_attr is empty
Comparison(lhs, op, rhs_attr, rhs_const) ==
    [lhs |-> lhs, op |-> op, rhs_attr |-> rhs_attr, rhs_const |-> rhs_const]

Operator(class) ==
    [class |-> class, physical |-> "", input |-> None, l_input |-> None,
     r_input |-> None, predicate |-> << >>, attributes |-> << >>,
     changes |-> << >>, operator |-> "", name |-> "", relation |-> "",
     required_attributes |-> {}]

LeafRelation(relation) == [Operator("LeafRelation") EXCEPT !.relation = relation]

Selection(input, predicate) ==
    [Operator("Selection") EXCEPT !.input = input, !.predicate = predicate]

Projection(input, attrs) ==
    [Operator("Projection") EXCEPT !.input = input, !.attributes = attrs]

Cartesian_Product(l_input, r_input) ==
    [Operator("Cartesian_Product") EXCEPT !.l_input = l_input, !.r_input = r_input]

Theta_Join(l_input, r_input, theta) ==
    [Operator("Theta_Join") EXCEPT !.l_input = l_input, !.r_input = r_input,
                                   !.predicate = theta]

SetOperator(l_input, r_input, operator) ==
    [Operator("SetOperator") EXCEPT !.l_input = l_input, !.r_input = r_input,
                                    !.operator = operator]

Renaming_Relation(input, name) ==
    [Operator("Renaming_Relation") EXCEPT !.input = input, !.name = name]

Renaming_Attributes(input, changes) ==
    [Operator("Renaming_Attributes") EXCEPT !.input = input, !.changes = changes]

\* isinstance(op, UnaryOperator), isinstance(op, BinaryOperator)
UnaryOperator(o) ==
    o.class \in { "Selection", "Projection", "Renaming_Relation", "Renaming_Attributes" }

BinaryOperator(o) == o.class \in { "Cartesian_Product", "Theta_Join", "SetOperator" }

Schema(attrs) == [exc |-> "none", attrs |-> attrs]
SchemaError(e) == [exc |-> e, attrs |-> << >>]

Items(seq) == { seq[i] : i \in DOMAIN seq }

\* Renaming_Attributes._parse_attribute_rename for each change 'new<-old'
RECURSIVE rename_all(_, _)
rename_all(changes, attrs) ==
    IF changes = << >> THEN Schema(attrs)
    ELSE LET new_attr == Head(changes)[1]
             old_attr == Head(changes)[2] IN
         IF old_attr \notin Items(attrs) THEN SchemaError("ValueError")
         ELSE LET i == CHOOSE j \in DOMAIN attrs :
                          attrs[j] = old_attr /\ \A h \in 1 .. j - 1 : attrs[h] # old_attr IN
              rename_all(Tail(changes), [attrs EXCEPT ![i] = new_attr])

\* get_schema of each class; the domains are all int and left out
RECURSIVE get_schema(_, _)
get_schema(o, op) ==
    LET self == o[op] IN
    IF self.class = "LeafRelation" THEN Schema(relations[self.relation].attributes)
    ELSE IF UnaryOperator(self)
    THEN LET child_schema == get_schema(o, self.input) IN
         IF child_schema.exc # "none" THEN child_schema
         ELSE IF self.class = "Projection"
         THEN IF Items(self.attributes) \subseteq Items(child_schema.attrs)
              THEN Schema(self.attributes) ELSE SchemaError("ValueError")
         ELSE IF self.class = "Renaming_Attributes"
         THEN rename_all(self.changes, child_schema.attrs)
         ELSE child_schema
    ELSE LET l == get_schema(o, self.l_input)
             r == get_schema(o, self.r_input) IN
         IF l.exc # "none" THEN l
         ELSE IF r.exc # "none" THEN r
         ELSE IF self.class = "SetOperator"
         THEN IF l = r THEN l ELSE SchemaError("AssertionError")
         ELSE IF Items(l.attrs) \cap Items(r.attrs) # {} THEN SchemaError("AssertionError")
         ELSE Schema(l.attrs \o r.attrs)

\* Operator.has_attribute; the rewrites ask it of subtrees whose schema can be
\* derived, an underivable schema has no attribute here
has_attribute(o, op, attribute) ==
    LET schema == get_schema(o, op) IN
    schema.exc = "none" /\ attribute \in Items(schema.attrs)

\* Selection.get_attributes_in_predicate, Theta_Join.get_attributes_in_predicate:
\* the names in the predicate that are attributes of the operator itself
get_attributes_in_predicate(o, op) ==
    { a \in UNION { { o[op].predicate[i].lhs, o[op].predicate[i].rhs_attr } :
                    i \in DOMAIN o[op].predicate } : has_attribute(o, op, a) }


\* the result of evaluate: a Relation object, or the exception raised
Evaluated(attrs, tuples) == [exc |-> "none", attributes |-> attrs, tuples |-> tuples]
EvalError(e) == [exc |-> e, attributes |-> << >>, tuples |-> {}]

\* Relation("Result", schema) followed by add_tuple for each of tuples:
\* parse_schema unpacks zip(*schema) and wants unique identifiers,
\* _check_schema wants tuples of the width of the schema
new_relation(schema, tuples) ==
    IF schema.exc # "none" THEN EvalError(schema.exc)
    ELSE IF schema.attrs = << >> THEN EvalError("ValueError")
    ELSE IF \/ "" \in Items(schema.attrs)
            \/ Cardinality(Items(schema.attrs)) # Len(schema.attrs)
         THEN EvalError("AssertionError")
    ELSE IF \E t \in tuples : Len(t) # Len(schema.attrs) THEN EvalError("AssertionError")
    ELSE Evaluated(schema.attrs, tuples)

\* Selection._locals_dict: zip(attributes, tup), a later name wins
Local(attrs, tup, a) ==
    tup[CHOOSE i \in DOMAIN attrs :
            attrs[i] = a /\ i <= Len(tup) /\ \A j \in i + 1 .. Len(attrs) : attrs[j] # a \/ j > Len(tup)]

Bound(attrs, tup, a) == \E i \in DOMAIN attrs : attrs[i] = a /\ i <= Len(tup)

\* eval(predicate, locals): "True", "False" or "NameError"; and stops at the
\* first comparison that is false
RECURSIVE eval(_, _, _)
eval(predicate, attrs, tup) ==
    IF predicate = << >> THEN "True"
    ELSE LET c == Head(predicate) IN
         IF ~Bound(attrs, tup, c.lhs) \/ (c.rhs_attr # "" /\ ~Bound(attrs, tup, c.rhs_attr))
         THEN "NameError"
         ELSE IF Compare(c.op, Local(attrs, tup, c.lhs),
                         IF c.rhs_attr # "" THEN Local(attrs, tup, c.rhs_attr)
                         ELSE c.rhs_const)
         THEN eval(Tail(predicate), attrs, tup)
         ELSE "False"

\* the loop of Selection_ScanBased.evaluate, Selection_IndexBased.evaluate and
\* Theta_Join_NestedLoop.evaluate over the candidate tuples
filter(schema, predicate, attrs, tuples) ==
    IF \E t \in tuples : eval(predicate, attrs, t) = "NameError" THEN EvalError("NameError")
    ELSE new_relation(schema, { t \in tuples : eval(predicate, attrs, t) = "True" })

\* operator.and_, operator.or_, operator.sub on sets
SetOp(operator, l, r) ==
    CASE operator = "and_" -> l \cap r
      [] operator = "or_" -> l \cup r
      [] operator = "sub" -> l \ r

\* evaluate of each physical operator; a logical operator has no evaluate
RECURSIVE evaluate(_, _)
evaluate(o, op) ==
    LET self == o[op] IN
    IF self.class = "LeafRelation"
    THEN Evaluated(relations[self.relation].attributes, relations[self.relation].tuples)
    ELSE IF self.physical = "" THEN EvalError("AttributeError")
    ELSE IF UnaryOperator(self)
    THEN LET eval_input == evaluate(o, self.input) IN
         IF eval_input.exc # "none" THEN eval_input
         ELSE IF self.class = "Selection"
         THEN filter(get_schema(o, op), self.predicate, eval_input.attributes,
                     eval_input.tuples)
         ELSE IF self.class = "Projection"
         THEN LET schema == get_schema(o, op) IN
              IF schema.exc # "none" THEN EvalError(schema.exc)
              ELSE new_relation(schema,
                      { [i \in DOMAIN self.attributes |->
                            tup[CHOOSE j \in DOMAIN eval_input.attributes :
                                    eval_input.attributes[j] = self.attributes[i]]] :
                        tup \in eval_input.tuples })
         ELSE new_relation(get_schema(o, op), eval_input.tuples)
    ELSE LET l_eval_input == evaluate(o, self.l_input)
             r_eval_input == evaluate(o, self.r_input) IN
         IF l_eval_input.exc # "none" THEN l_eval_input
         ELSE IF r_eval_input.exc # "none" THEN r_eval_input
         ELSE IF self.class = "SetOperator"
         THEN new_relation(get_schema(o, op),
                           SetOp(self.operator, l_eval_input.tuples, r_eval_input.tuples))
         ELSE LET schema == get_schema(o, op)
                  pairs == { tup1 \o tup2 : tup1 \in l_eval_input.tuples,
                                            tup2 \in r_eval_input.tuples } IN
              IF schema.exc # "none" THEN EvalError(schema.exc)
              ELSE IF self.class = "Theta_Join"
              THEN filter(schema, self.predicate, schema.attrs, pairs)
              ELSE new_relation(schema, pairs)


(***************************************************************************)
(* src/ra/rule.py: the base class of the rewrites.  A Rule object r holds  *)
(* the operator objects it works on (r.ops) beside its own fields; cont_op *)
(* and cont_parent are the pair _modify returned last.                     *)
(***************************************************************************)
\* the recursion limit of the interpreter (1000 frames by default), scaled to
\* the plans built here: the nested calls of optimize before a RecursionError
MaxDepth == 16

\* Rule.__init__, and the __init__ of PushDownSelection and InsertProjection
\* order is the order in which this run of Python iterates a set of names
Rule(name, o, rt, order) ==
    [name |-> name, ops |-> o, root |-> rt, pushed_selections |-> {},
     processed_operators |-> {}, exc |-> "none", cont_op |-> None,
     cont_parent |-> None, moves |-> 0, order |-> order]

Fail(r, e) == [r EXCEPT !.exc = e, !.cont_op = None]

\* return cont_op, cont_parent
Return(r, cont_op, cont_parent) ==
    [r EXCEPT !.cont_op = cont_op, !.cont_parent = cont_parent]

\* the constructor of an operator class ran: a new object, whose identity
\* is the next free one
Alloc(r, obj) == [r EXCEPT !.ops = Append(@, obj)]
Newest(r) == Len(r.ops)

IsUnary(r, op) == op # None /\ UnaryOperator(r.ops[op])
IsBinary(r, op) == op # None /\ BinaryOperator(r.ops[op])

\* the part of _replace, _delete and _put that links a parent to a new child
\* in place of old
Relink(r, parent, old, new) ==
    IF IsUnary(r, parent) THEN [r EXCEPT !.ops[parent].input = new]
    ELSE IF IsBinary(r, parent)
    THEN IF r.ops[parent].l_input # old /\ r.ops[parent].r_input # old
         THEN Fail(r, "AssertionError")
         ELSE IF r.ops[parent].l_input = old
         THEN [r EXCEPT !.ops[parent].l_input = new]
         ELSE [r EXCEPT !.ops[parent].r_input = new]
    ELSE IF parent = None THEN [r EXCEPT !.root = new]
    ELSE r

\* Rule._replace
_replace(r, parent, top_of_old, bottom_of_old, top_of_new, bottom_of_new) ==
    LET top == Relink(r, parent, top_of_old, top_of_new) IN
    IF top.exc # "none" \/ bottom_of_old = None \/ bottom_of_new = None THEN top
    ELSE IF IsUnary(top, bottom_of_old)
    THEN IF ~IsUnary(top, bottom_of_new) THEN Fail(top, "AssertionError")
         ELSE [top EXCEPT !.ops[bottom_of_new].input = top.ops[bottom_of_old].input]
    ELSE IF IsBinary(top, bottom_of_old)
    THEN IF ~IsBinary(top, bottom_of_new) THEN Fail(top, "AssertionError")
         ELSE [top EXCEPT !.ops[bottom_of_new].l_input = top.ops[bottom_of_old].l_input,
                          !.ops[bottom_of_new].r_input = top.ops[bottom_of_old].r_input]
    ELSE top

\* Rule._delete
_delete(r, parent, op) ==
    IF ~IsUnary(r, op) THEN Fail(r, "AssertionError")
    ELSE Relink(r, parent, op, r.ops[op].input)

\* Rule._put
_put(r, new_parent, op, left) ==
    IF ~IsUnary(r, op) THEN Fail(r, "AssertionError")
    ELSE IF IsUnary(r, new_parent)
    THEN [r EXCEPT !.ops[op].input = r.ops[new_parent].input,
                   !.ops[new_parent].input = op]
    ELSE IF IsBinary(r, new_parent)
    THEN IF left
         THEN [r EXCEPT !.ops[op].input = r.ops[new_parent].l_input,
                        !.ops[new_parent].l_input = op]
         ELSE [r EXCEPT !.ops[op].input = r.ops[new_parent].r_input,
                        !.ops[new_parent].r_input = op]
    ELSE r

\* Rule._move
_move(r, old_parent, op, new_parent, left) ==
    IF ~IsUnary(r, op) THEN Fail(r, "AssertionError")
    ELSE LET deleted == _delete(r, old_parent, op) IN
         IF deleted.exc # "none" THEN deleted
         ELSE _put(deleted, new_parent, op, left)


(***************************************************************************)
(* src/ra/rules_log.py: the logical rewrites.                              *)
(***************************************************************************)
IsClass(r, op, class) == op # None /\ r.ops[op].class = class

\* BreakUpSelections._is_compound_selection: the predicate has no brackets,
\* splits by ' and ' into two parts or more, and each part by its comparison
\* operator into two
_is_compound_selection(r, op) == Len(r.ops[op].predicate) >= 2

\* a chain built from the last predicate up
RECURSIVE _split_last_first(_, _, _)
_split_last_first(r, sel, predicates) ==
    IF predicates = << >> THEN r
    ELSE LET made == Alloc(r, Selection(sel, << predicates[Len(predicates)] >>)) IN
         _split_last_first(made, Newest(made), SubSeq(predicates, 1, Len(predicates) - 1))

\* BreakUpSelections._split_compound_selection: the chain, built bottom up;
\* the new selections are the objects first + 1 .. first + n
RECURSIVE _split_compound_selection(_, _, _)
_split_compound_selection(r, sel, predicates) ==
    IF predicates = << >> THEN r
    ELSE LET made == Alloc(r, Selection(sel, << Head(predicates) >>)) IN
         _split_compound_selection(made, Newest(made), Tail(predicates))

BreakUpSelections_modify(r, op, parent) ==
    LET first == Len(r.ops)
        split == _split_compound_selection(r, r.ops[op].input, r.ops[op].predicate)
        replaced == _replace(split, parent, op, op, Newest(split), first + 1) IN
    IF replaced.exc # "none" THEN replaced
    ELSE Return(replaced, replaced.ops[first + 1].input, first + 1)

\* PushDownSelection._is_push_down_possible
_is_push_down_possible(r, attribute_names, grandchild) ==
    \A a \in attribute_names : has_attribute(r.ops, grandchild, a)

\* PushDownSelection._selection_fully_pushed
_selection_fully_pushed(r, op) ==
    Return([r EXCEPT !.pushed_selections = @ \cup { op }], r.root, None)

PushDownSelection_modify(r, op, parent) ==
    LET attribute_names == get_attributes_in_predicate(r.ops, op)
        child == r.ops[op].input IN
    IF IsUnary(r, child)
    THEN IF _is_push_down_possible(r, attribute_names, r.ops[child].input)
         THEN Return(_move(r, parent, op, child, TRUE), op, child)
         ELSE _selection_fully_pushed(r, op)
    ELSE IF IsBinary(r, child)
    THEN LET push_left == _is_push_down_possible(r, attribute_names, r.ops[child].l_input)
             push_right == _is_push_down_possible(r, attribute_names, r.ops[child].r_input) IN
         IF push_left /\ push_right
         THEN LET sel1 == Alloc(r, Selection(child, r.ops[op].predicate))
                  sel2 == Alloc(sel1, Selection(child, r.ops[op].predicate))
                  deleted == _delete(sel2, parent, op)
                  put1 == _put(deleted, child, Newest(sel1), TRUE)
                  put2 == _put(put1, child, Newest(sel2), FALSE) IN
              IF deleted.exc # "none" THEN deleted ELSE Return(put2, child, parent)
         ELSE IF push_left THEN Return(_move(r, parent, op, child, TRUE), op, child)
         ELSE IF push_right THEN Return(_move(r, parent, op, child, FALSE), op, child)
         ELSE _selection_fully_pushed(r, op)
    ELSE _selection_fully_pushed(r, op)

\* the characters of a comparison operator in the text of a predicate
Symbol(comp_operator) ==
    CASE comp_operator = "eq" -> << "=", "=" >>
      [] comp_operator = "le" -> << "<", "=" >>
      [] comp_operator = "lt" -> << "<" >>
      [] comp_operator = "gt" -> << ">" >>
      [] comp_operator = "ge" -> << ">", "=" >>

\* comp_operators of ReplaceByJoin._match, in its order
comp_operators == << "eq", "le", "lt", "gt", "ge" >>

\* o in text: the characters of o stand somewhere in text
Contains(text, o) ==
    \E i \in 1 .. Len(text) - Len(o) + 1 : SubSeq(text, i, i + Len(o) - 1) = o

\* the first of comp_operators that the text of comparison c contains; the
\* names and constants of a comparison hold none of the characters
first_comp_operator(c) ==
    comp_operators[CHOOSE i \in DOMAIN comp_operators :
        /\ Contains(Symbol(c.op), Symbol(comp_operators[i]))
        /\ \A j \in 1 .. i - 1 : ~Contains(Symbol(c.op), Symbol(comp_operators[j]))]

\* op.predicate.split(o) gives the two operands as written only when o is the
\* whole operator of the comparison: 'a >= c' is split by '>' into 'a ' and
\* '= c'
split_gives_operands(c) == Symbol(first_comp_operator(c)) = Symbol(c.op)

\* ReplaceByJoin._match: the predicate is split by the first of '==', '<=',
\* '<', '>', '>=' it contains; a predicate of several comparisons is never
\* split into two attribute names
ReplaceByJoin_match(r, op, parent) ==
    /\ IsClass(r, op, "Selection")
    /\ IsClass(r, r.ops[op].input, "Cartesian_Product")
    /\ Len(r.ops[op].predicate) = 1
    /\ LET c == r.ops[op].predicate[1]
           cp == r.ops[r.ops[op].input] IN
       /\ split_gives_operands(c) /\ c.rhs_attr # ""
       /\ \/ has_attribute(r.ops, cp.l_input, c.lhs) /\ has_attribute(r.ops, cp.r_input, c.rhs_attr)
          \/ has_attribute(r.ops, cp.l_input, c.rhs_attr) /\ has_attribute(r.ops, cp.r_input, c.lhs)

ReplaceByJoin_modify(r, op, parent) ==
    LET cp == r.ops[op].input
        made == Alloc(r, Theta_Join(r.ops[cp].l_input, r.ops[cp].r_input, r.ops[op].predicate))
        join == Newest(made) IN
    Return(_replace(made, parent, op, cp, join, join), join, parent)

\* InsertProjection._get_provided_attributes
_get_provided_attributes(r, op, parent) ==
    { a \in r.ops[parent].required_attributes : has_attribute(r.ops, op, a) }

\* InsertProjection._get_required_attributes
_get_required_attributes(o, op) ==
    IF o[op].class \in { "Selection", "Theta_Join" } THEN get_attributes_in_predicate(o, op)
    ELSE IF o[op].class = "Projection" THEN Items(o[op].attributes)
    ELSE {}

\* InsertProjection._annotate_node
_annotate_node(o, op, parent) ==
    [o EXCEPT ![op].required_attributes =
        IF parent = None THEN _get_required_attributes(o, op)
        ELSE { a \in o[parent].required_attributes : has_attribute(o, op, a) }
                 \cup _get_required_attributes(o, op)]

\* InsertProjection._annotate
RECURSIVE _annotate(_, _, _)
_annotate(o, op, parent) ==
    LET noted == _annotate_node(o, op, parent) IN
    IF UnaryOperator(o[op]) THEN _annotate(noted, o[op].input, op)
    ELSE IF BinaryOperator(o[op])
    THEN _annotate(_annotate(noted, o[op].l_input, op), o[op].r_input, op)
    ELSE noted

InsertProjection_match(r, op, parent) ==
    /\ op \notin r.processed_operators /\ parent # None
    /\ ~IsClass(r, parent, "Projection")
    /\ IF IsUnary(r, op)
       THEN _get_provided_attributes(r, op, parent)
                # _get_provided_attributes(r, r.ops[op].input, op)
       ELSE IF IsBinary(r, op)
       THEN ~(/\ _get_provided_attributes(r, op, parent)
                    = _get_provided_attributes(r, r.ops[op].l_input, op)
              /\ _get_provided_attributes(r, r.ops[op].l_input, op)
                    = _get_provided_attributes(r, r.ops[op].r_input, op))
       ELSE TRUE

\* ','.join(a set of names): the names in the order the set hands them out
Joined(order, names) == list_to_str(SelectSeq(order, LAMBDA a : a \in names))

InsertProjection_modify(r, op, parent) ==
    LET provided_attributes == _get_provided_attributes(r, op, parent)
        made == Alloc([r EXCEPT !.processed_operators = @ \cup { op }],
                      [Projection(op, str_to_list(Joined(r.order, provided_attributes)).list)
                          EXCEPT !.required_attributes = provided_attributes])
        proj == Newest(made) IN
    IF IsBinary(r, parent)
    THEN IF r.ops[parent].l_input # op /\ r.ops[parent].r_input # op
         THEN Fail(made, "AssertionError")
         ELSE Return(_put(made, parent, proj, r.ops[parent].l_input = op), op, proj)
    ELSE Return(_put(made, parent, proj, TRUE), op, proj)


(***************************************************************************)
(* src/ra/rules_phys.py: the rules that compile a logical operator into a  *)
(* physical one, and compile_plan.                                         *)
(***************************************************************************)
IsLogical(r, op, class) == IsClass(r, op, class) /\ r.ops[op].physical = ""

Physical(obj, how) == [obj EXCEPT !.physical = how]

\* the walk of CompileSelectionIndex._match and _modify from child down to
\* the leaf: the leaf, or None when an operator other than a projection or a
\* selection is on the way
RECURSIVE leaf_below(_, _)
leaf_below(r, child) ==
    IF IsClass(r, child, "LeafRelation") THEN child
    ELSE IF IsClass(r, child, "Projection") \/ IsClass(r, child, "Selection")
    THEN leaf_below(r, r.ops[child].input)
    ELSE None

\* the selections CompileSelectionIndex._modify collects on the way down
RECURSIVE selections_below(_, _)
selections_below(r, child) ==
    IF IsClass(r, child, "LeafRelation") THEN << >>
    ELSE IF IsClass(r, child, "Selection")
    THEN << child >> \o selections_below(r, r.ops[child].input)
    ELSE selections_below(r, r.ops[child].input)

has_index_on(rel, attribute) == attribute \in relations[rel].indexes

CompileSelectionIndex_match(r, op, parent) ==
    /\ IsLogical(r, op, "Selection")
    /\ Cardinality(get_attributes_in_predicate(r.ops, op)) <= 1
    /\ leaf_below(r, r.ops[op].input) # None
    /\ \E a \in get_attributes_in_predicate(r.ops, op) :
          has_index_on(r.ops[leaf_below(r, r.ops[op].input)].relation, a)

\* Selection_IndexBased(leaf, predicate).estimatedResultSize(): the length of
\* its evaluation
estimatedResultSize(r, leaf, predicate) ==
    LET rel == relations[r.ops[leaf].relation] IN
    Cardinality({ t \in rel.tuples : eval(predicate, rel.attributes, t) = "True" })

\* step 3 of CompileSelectionIndex._modify: the selection picked after the
\* candidates sels[i ..] were tested, or None
RECURSIVE pick(_, _, _, _, _, _)
pick(r, leaf, sels, i, min_result_size, picked_sel) ==
    IF i > Len(sels) THEN picked_sel
    ELSE LET size == estimatedResultSize(r, leaf, r.ops[sels[i]].predicate) IN
         IF size < min_result_size THEN pick(r, leaf, sels, i + 1, size, sels[i])
         ELSE pick(r, leaf, sels, i + 1, min_result_size, picked_sel)

\* steps 4 and 5: the scan based selections put on top of next_sel
RECURSIVE stack_scans(_, _, _, _, _)
stack_scans(r, selections, i, picked_sel_index, next_sel) ==
    IF i > Len(selections) THEN r
    ELSE IF i = picked_sel_index
    THEN stack_scans(r, selections, i + 1, picked_sel_index, next_sel)
    ELSE LET made == Alloc(r, Physical(Selection(next_sel, r.ops[selections[i]].predicate),
                                       "ScanBased")) IN
         stack_scans(made, selections, i + 1, picked_sel_index, Newest(made))

CompileSelectionIndex_modify(r, op, parent) ==
    LET selections == << op >> \o selections_below(r, r.ops[op].input)
        leaf == leaf_below(r, r.ops[op].input)
        selections_with_index ==
            SelectSeq(selections, LAMBDA sel :
                \E a \in get_attributes_in_predicate(r.ops, sel) :
                    has_index_on(r.ops[leaf].relation, a))
        picked_sel == pick(r, leaf, selections_with_index, 1,
                           Cardinality(relations[r.ops[leaf].relation].tuples), None) IN
    IF picked_sel = None THEN Fail(r, "ValueError")
    ELSE LET picked_sel_index == CHOOSE i \in DOMAIN selections :
                                     selections[i] = picked_sel
             indexed == Alloc(r, Physical(Selection(leaf, r.ops[picked_sel].predicate),
                                          "IndexBased"))
             stacked == stack_scans(indexed, selections, 1, picked_sel_index,
                                    Newest(indexed)) IN
         Return(_replace(stacked, parent, op, leaf, Newest(stacked), leaf),
                r.root, None)

\* the rules that replace one operator by its physical twin; deeper is TRUE
\* for the rules that go on at the input of the new operator
Twin(r, op, parent, obj, deeper) ==
    LET made == Alloc(r, obj)
        physical_op == Newest(made)
        replaced == _replace(made, parent, op, op, physical_op, physical_op) IN
    IF replaced.exc # "none" THEN replaced
    ELSE IF deeper THEN Return(replaced, replaced.ops[physical_op].input, physical_op)
    ELSE Return(replaced, physical_op, parent)

LogicalRules ==
    { "BreakUpSelections", "PushDownSelection", "ReplaceByJoin", "InsertProjection" }

\* operators_to_compile of compile_plan, in its order; CompileGrouping comes
\* last and matches no operator of the plans built here
operators_to_compile ==
    << "CompileSetOperator", "CompileSelectionIndex", "CompileSelectionScan",
       "CompileProjection", "CompileCartesianProduct", "CompileRenamingRelation",
       "CompileRenamingAttributes", "CompileThetaJoin" >>

\* _match of the rule r
_match(r, op, parent) ==
    CASE r.name = "BreakUpSelections" ->
            IsClass(r, op, "Selection") /\ _is_compound_selection(r, op)
      [] r.name = "PushDownSelection" ->
            IsClass(r, op, "Selection") /\ op \notin r.pushed_selections
      [] r.name = "ReplaceByJoin" -> ReplaceByJoin_match(r, op, parent)
      [] r.name = "InsertProjection" -> InsertProjection_match(r, op, parent)
      [] r.name = "CompileSetOperator" -> IsLogical(r, op, "SetOperator")
      [] r.name = "CompileSelectionIndex" -> CompileSelectionIndex_match(r, op, parent)
      [] r.name = "CompileSelectionScan" -> IsLogical(r, op, "Selection")
      [] r.name = "CompileProjection" -> IsLogical(r, op, "Projection")
      [] r.name = "CompileCartesianProduct" -> IsLogical(r, op, "Cartesian_Product")
      [] r.name = "CompileRenamingRelation" -> IsLogical(r, op, "Renaming_Relation")
      [] r.name = "CompileRenamingAttributes" -> IsLogical(r, op, "Renaming_Attributes")
      [] r.name = "CompileThetaJoin" -> IsLogical(r, op, "Theta_Join")

\* _modify of the rule r
_modify(r, op, parent) ==
    LET self == r.ops[op] IN
    CASE r.name = "BreakUpSelections" -> BreakUpSelections_modify(r, op, parent)
      [] r.name = "PushDownSelection" -> PushDownSelection_modify(r, op, parent)
      [] r.name = "ReplaceByJoin" -> ReplaceByJoin_modify(r, op, parent)
      [] r.name = "InsertProjection" -> InsertProjection_modify(r, op, parent)
      [] r.name = "CompileSetOperator" ->
            Twin(r, op, parent,
                 Physical(SetOperator(self.l_input, self.r_input, self.operator),
                          "HashBased"), FALSE)
      [] r.name = "CompileSelectionIndex" -> CompileSelectionIndex_modify(r, op, parent)
      [] r.name = "CompileSelectionScan" ->
            Twin(r, op, parent,
                 Physical(Selection(self.input, self.predicate), "ScanBased"), TRUE)
      [] r.name = "CompileProjection" ->
            Twin(r, op, parent,
                 Physical(Projection(self.input,
                                     str_to_list(list_to_str(self.attributes)).list),
                          "ScanBased"), TRUE)
      [] r.name = "CompileCartesianProduct" ->
            Twin(r, op, parent,
                 Physical(Cartesian_Product(self.l_input, self.r_input), "NestedLoop"),
                 FALSE)
      [] r.name = "CompileRenamingRelation" ->
            Twin(r, op, parent,
                 Physical(Renaming_Relation(self.input, self.name), "ScanBased"), FALSE)
      [] r.name = "CompileRenamingAttributes" ->
            \* Renaming_Attributes.__init__ is handed the list op.changes
            IF str_to_list(List(self.changes)).exc # "none"
            THEN Fail(r, str_to_list(List(self.changes)).exc)
            ELSE Twin(r, op, parent,
                      Physical(Renaming_Attributes(self.input,
                                                   str_to_list(List(self.changes)).list),
                               "ScanBased"), FALSE)
      [] r.name = "CompileThetaJoin" ->
            Twin(r, op, parent,
                 Physical(Theta_Join(self.l_input, self.r_input, self.predicate),
                          "NestedLoop"), FALSE)

\* Rule.optimize; depth counts the calls of optimize that have not returned:
\* the call that goes on at cont_op is made inside the call that matched
RECURSIVE optimize(_, _, _, _)

\* optimize after _modify returned (cont_op, cont_parent)
continue_at(modified, depth) ==
    IF modified.exc # "none" \/ modified.cont_op = None THEN modified
    ELSE optimize(modified, modified.cont_op, modified.cont_parent, depth + 1)

\* optimize of a binary operator after the call on its left input returned
continue_right(left, op, depth) ==
    IF left.exc # "none" THEN left
    ELSE optimize(left, left.ops[op].r_input, op, depth + 1)

\* the branch optimize takes at op
branch(r, op, parent, depth) ==
    IF r.exc # "none" THEN "raised"
    ELSE IF depth > MaxDepth THEN "RecursionError"
    ELSE IF _match(r, op, parent) THEN "matched"
    ELSE IF IsUnary(r, op) THEN "unary"
    ELSE IF IsBinary(r, op) THEN "binary"
    ELSE "leaf"

\* the body of optimize in the branch taken
body(taken, r, op, parent, depth) ==
    CASE taken = "raised" -> r
      [] taken = "RecursionError" -> Fail(r, "RecursionError")
      [] taken = "matched" ->
            continue_at(_modify([r EXCEPT !.moves = @ + 1], op, parent), depth)
      [] taken = "unary" -> optimize(r, r.ops[op].input, op, depth + 1)
      [] taken = "binary" ->
            continue_right(optimize(r, r.ops[op].l_input, op, depth + 1), op, depth)
      [] taken = "leaf" -> r

optimize(r, op, parent, depth) == body(branch(r, op, parent, depth), r, op, parent, depth)

\* rule = Rule(root); rule.optimize(rule.root)
Rewrite(name, o, rt, order) ==
    optimize(Rule(name, IF name = "InsertProjection" THEN _annotate(o, rt, None) ELSE o,
                  rt, order),
             rt, None, 1)

\* the loop of compile_plan from the i-th rule on
RECURSIVE compile_from(_, _, _)

\* last_root = rule.root, and on to the rule after the i-th
compile_next(i, r) ==
    IF r.exc # "none" THEN r ELSE compile_from(i + 1, r.ops, r.root)

compile_from(i, o, last_root) ==
    IF i > Len(operators_to_compile)
    THEN [Rule("compile_plan", o, last_root, << >>) EXCEPT !.cont_op = None]
    ELSE compile_next(i, Rewrite(operators_to_compile[i], o, last_root, << >>))

compile_plan(o, rt) == compile_from(1, o, rt)


(***************************************************************************)
(* The plans a caller builds, and the rewrites applied to them in the      *)
(* order of the optimizer: break-up selections, push-down selection,       *)
(* replace-by-join, insert-projections, then compile_plan.                 *)
(***************************************************************************)
MaxOps == 4         \* operators of a plan as built, leaves included

\* the relations A(a, b), A2(a, b) and B(c, d)
Catalogue == [A |-> << "a", "b" >>, A2 |-> << "a", "b" >>, B |-> << "c", "d" >>]

Contents ==
    [A |-> { { << 1, 1 >>, << 1, 2 >> }, { << 1, 1 >>, << 2, 1 >> } },
     A2 |-> { { << 1, 1 >> }, { << 2, 1 >>, << 2, 2 >> } },
     B |-> { { << 1, 1 >>, << 2, 2 >> } }]

\* the predicates of the selections and joins built
Predicates ==
    { << Comparison("a", "eq", "", 1) >>,
      << Comparison("b", "le", "", 1) >>,
      << Comparison("c", "eq", "", 1) >>,
      << Comparison("a", "eq", "c", 0) >>,
      << Comparison("a", "eq", "", 1), Comparison("b", "le", "", 1) >>,
      << Comparison("a", "eq", "", 1), Comparison("c", "eq", "", 1) >>,
      << Comparison("b", "le", "", 1), Comparison("a", "eq", "", 1),
         Comparison("a", "le", "", 2) >> }

\* the unary operators built over the plan rooted at input
UnaryOver(input) ==
    { Selection(input, predicate) : predicate \in Predicates }
        \cup { Projection(input, attrs) :
                 attrs \in { << "a" >>, << "b" >>, << "a", "c" >>, << "b", "d" >> } }
        \cup { Renaming_Attributes(input, << << "x", "a" >> >>),
               Renaming_Relation(input, "N") }

BinaryOver(l_input, r_input) ==
    { SetOperator(l_input, r_input, operator) : operator \in { "and_", "or_", "sub" } }
        \cup { Cartesian_Product(l_input, r_input),
               Theta_Join(l_input, r_input, << Comparison("a", "eq", "c", 0) >>) }

Plan(o, rt) == [ops |-> o, root |-> rt]

\* the objects of a plan when n objects were made before them
Shift(o, n) ==
    [i \in DOMAIN o |->
        [o[i] EXCEPT !.input = IF @ = None THEN None ELSE @ + n,
                     !.l_input = IF @ = None THEN None ELSE @ + n,
                     !.r_input = IF @ = None THEN None ELSE @ + n]]

\* the names a predicate uses are attributes where it is evaluated, and the
\* schema of every operator can be derived
WellFormed(plan) ==
    /\ get_schema(plan.ops, plan.root).exc = "none"
    /\ \A i \in DOMAIN plan.ops :
          \A j \in DOMAIN plan.ops[i].predicate :
              LET c == plan.ops[i].predicate[j] IN
              /\ has_attribute(plan.ops, i, c.lhs)
              /\ c.rhs_attr # "" => has_attribute(plan.ops, i, c.rhs_attr)

\* the well-formed plans of exactly n operators
RECURSIVE PlansOfSize(_)
PlansOfSize(n) ==
    IF n = 1 THEN { Plan(<< LeafRelation(rel) >>, 1) : rel \in DOMAIN Catalogue }
    ELSE LET unary == UNION { { Plan(Append(p.ops, u), n) : u \in UnaryOver(p.root) } :
                              p \in PlansOfSize(n - 1) }
             binary == UNION { UNION { UNION {
                          { Plan(l.ops \o Shift(r.ops, m) \o << b >>, n) :
                              b \in BinaryOver(l.root, r.root + m) } :
                          r \in PlansOfSize(n - 1 - m) } :
                          l \in PlansOfSize(m) } : m \in 1 .. n - 2 } IN
         { plan \in unary \cup binary : WellFormed(plan) }

Plans == UNION { PlansOfSize(n) : n \in 1 .. MaxOps }

\* the two orders in which a run may iterate a set of attribute names
Orders == { << "a", "b", "c", "d", "x" >>, << "x", "d", "c", "b", "a" >> }

InitPlan ==
    /\ TmIdle
    /\ \E ta \in Contents.A, ta2 \in Contents.A2, tb \in Contents.B,
          indexes \in { {}, { "a" } } :
          relations = [A |-> [Relation("A", Catalogue.A, ta) EXCEPT !.indexes = indexes],
                       A2 |-> Relation("A2", Catalogue.A2, ta2),
                       B |-> Relation("B", Catalogue.B, tb)]
    /\ index = Null /\ got = Null
    /\ \E plan \in Plans : ops = plan.ops /\ root = plan.root /\ plan0 = plan
    /\ rule = Null /\ applied = << >> /\ raised = "none"

\* the place of a rewrite in the order of the optimizer
Stage(name) ==
    CASE name = "BreakUpSelections" -> 1
      [] name = "PushDownSelection" -> 2
      [] name = "ReplaceByJoin" -> 3
      [] name = "InsertProjection" -> 4
      [] name = "compile_plan" -> 5

Times(name) == Cardinality({ i \in DOMAIN applied : applied[i] = name })

\* the rule object kept after its run, without the objects of the plan
Kept(r) ==
    [name |-> r.name, pushed_selections |-> r.pushed_selections,
     processed_operators |-> r.processed_operators, moves |-> r.moves]

Ran(r, name) ==
    /\ ops' = r.ops /\ root' = r.root /\ rule' = Kept(r) /\ raised' = r.exc
    /\ applied' = Append(applied, name)
    /\ UNCHANGED << TmVars, relations, index, got, plan0 >>

CanApply(name) ==
    /\ raised = "none" /\ root # None
    /\ \A i \in DOMAIN applied : Stage(applied[i]) <= Stage(name)
    /\ Times(name) < (IF name = "BreakUpSelections" THEN 2 ELSE 1)

\* rule = name(root); rule.optimize(rule.root); root = rule.root
Apply(name) ==
    /\ CanApply(name)
    /\ \E order \in (IF name = "InsertProjection" THEN Orders ELSE { << >> }) :
          Ran(Rewrite(name, ops, root, order), name)

\* root = compile_plan(root)
Compile ==
    /\ CanApply("compile_plan")
    /\ Ran(compile_plan(ops, root), "compile_plan")

NextPlan ==
    \/ \E name \in LogicalRules : Apply(name)
    \/ Compile

SpecPlan == InitPlan /\ [][NextPlan]_vars


(***************************************************************************)
(* Properties of the rewrites.                                             *)
(***************************************************************************)
\* the plan rooted at op as a term: what each operator is and what it is
\* applied to, whatever the identities of the objects
TermOf(obj, inputs) ==
    [class |-> obj.class, physical |-> obj.physical, predicate |-> obj.predicate,
     attributes |-> obj.attributes, changes |-> obj.changes,
     operator |-> obj.operator, name |-> obj.name, relation |-> obj.relation,
     inputs |-> inputs]

RECURSIVE Term(_, _)
Term(o, op) ==
    TermOf(o[op], IF UnaryOperator(o[op]) THEN << Term(o, o[op].input) >>
                  ELSE IF BinaryOperator(o[op])
                  THEN << Term(o, o[op].l_input), Term(o, o[op].r_input) >>
                  ELSE << >>)

\* the chain of single-predicate selections over term, the first predicate
\* at the bottom
RECURSIVE ChainOver(_, _)
ChainOver(predicates, term) ==
    IF predicates = << >> THEN term
    ELSE TermOf(Selection(None, << predicates[Len(predicates)] >>),
                << ChainOver(SubSeq(predicates, 1, Len(predicates) - 1), term) >>)

\* a term with every selection of two predicates or more replaced by its chain
RECURSIVE BrokenUp(_)
BrokenUp(term) ==
    IF term.class = "Selection" /\ Len(term.predicate) >= 2
    THEN ChainOver(term.predicate, BrokenUp(term.inputs[1]))
    ELSE [term EXCEPT !.inputs = [i \in DOMAIN term.inputs |-> BrokenUp(term.inputs[i])]]

JustApplied(name) == applied' = Append(applied, name)

\* C28: break-up selections replaces a selection 'p1 and ... and pn' by a chain
\* of n single-predicate selections over the same child, p1 at the bottom and
\* pn at the top, linked to the same parent or made the root; applied a second
\* time it leaves the shape of the plan unchanged
C28_BreakUpChain ==
    [][JustApplied("BreakUpSelections") =>
          /\ raised' = "none"
          /\ applied = << >> => Term(ops', root') = BrokenUp(Term(ops, root))
          /\ applied # << >> => Term(ops', root') = Term(ops, root)]_vars

C28_Witness ==
    /\ applied = << "BreakUpSelections", "BreakUpSelections" >>
    /\ \E i \in DOMAIN plan0.ops :
          /\ Len(plan0.ops[i].predicate) = 3 /\ plan0.ops[i].class = "Selection"
          /\ \E q \in DOMAIN plan0.ops : BinaryOperator(plan0.ops[q]) /\ plan0.ops[q].r_input = i
    /\ Term(ops, root) # Term(plan0.ops, plan0.root)


\* the operators of the plan rooted at op
RECURSIVE Reachable(_, _)
Reachable(o, op) ==
    { op } \cup (IF UnaryOperator(o[op]) THEN Reachable(o, o[op].input)
                 ELSE IF BinaryOperator(o[op])
                 THEN Reachable(o, o[op].l_input) \cup Reachable(o, o[op].r_input)
                 ELSE {})

SelectionsOf(o, rt) == { op \in Reachable(o, rt) : o[op].class = "Selection" }

\* C27: push-down selection terminates: on every plan optimize returns after
\* finitely many moves, and in the plan it leaves every Selection is tagged
\* fully pushed, so that none satisfies _match any more
C27_PushDownTerminates ==
    [][JustApplied("PushDownSelection") =>
          /\ raised' = "none"
          /\ SelectionsOf(ops', root') \subseteq rule'.pushed_selections]_vars


\* compile_plan(root).evaluate(): the relation a plan stands for, or the
\* exception that compiling or evaluating it raises
Answer(o, rt) ==
    LET compiled == compile_plan(o, rt) IN
    IF compiled.exc # "none" THEN EvalError(compiled.exc)
    ELSE evaluate(compiled.ops, compiled.root)

\* C26: insert-projections preserves results: for every plan, whatever its
\* root operator and also when it holds an intersection, a union or a
\* difference, the plan InsertProjection.optimize leaves evaluates to exactly
\* the same tuples, with the same schema, as the plan it was given
C26_InsertProjectionPreservesResult ==
    [][JustApplied("InsertProjection") =>
          /\ raised' = "none"
          /\ Answer(ops', root') = Answer(ops, root)]_vars


\* the rewrites of the optimizer, each applied once, then compile_plan
Pipeline ==
    << "BreakUpSelections", "PushDownSelection", "ReplaceByJoin", "InsertProjection",
       "compile_plan" >>

\* C25: rewrites preserve semantics: for every logical plan p, the plan
\* obtained by break-up selections, push-down selection, replace-by-join and
\* insert-projections and then compile_plan evaluates to the same set of
\* tuples as the compiled original plan p
C25_RewritesPreserveSemantics ==
    applied = Pipeline =>
        /\ raised = "none"
        /\ evaluate(ops, root).exc = Answer(plan0.ops, plan0.root).exc
        /\ evaluate(ops, root).tuples = Answer(plan0.ops, plan0.root).tuples


\* a term without the choice of the physical variants
RECURSIVE Logical(_)
Logical(term) ==
    [term EXCEPT !.physical = "",
                 !.inputs = [i \in DOMAIN term.inputs |-> Logical(term.inputs[i])]]

\* C30: compilation is total: for every logical plan with LeafRelation leaves
\* compile_plan returns without error a tree in which every inner operator is
\* a physical variant, and which has the same operators in the same positions
\* as the plan it was given
C30_CompilationIsTotal ==
    [][JustApplied("compile_plan") =>
          /\ raised' = "none"
          /\ \A op \in Reachable(ops', root') :
                ops'[op].class # "LeafRelation" => ops'[op].physical # ""
          /\ Logical(Term(ops', root')) = Logical(Term(ops, root))]_vars


(***************************************************************************)
(* The write-lock upgrade among readers (transaction.py 191-214).          *)
(***************************************************************************)
\* t is running and holds a read lock on k that another running transaction
\* holds as well
ReadLockShared(t, k) ==
    /\ tx[t].status = "running" /\ k \in tx[t].read_lock_list_local
    /\ k \in DOMAIN global_lock_dict
    /\ \E u \in Tx \ {t} :
          tx[u].status = "running" /\ k \in tx[u].read_lock_list_local

\* the step is a call of t that requests the write lock on k
RequestsWriteLock(t, k) ==
    lastop'.op \in { "update", "delete" } /\ lastop'.tx = t /\ lastop'.key = k

\* no transaction but t is registered as pending writer of k
NoOtherPendingWriter(t, k) ==
    global_lock_dict[k].requestor \in { None, tx[t].tx_id }

\* what the claim says of the request of t for the write lock on k
UpgradeOutcome(t, k) ==
    IF NoOtherPendingWriter(t, k)
    THEN /\ tx'[t].status = "running"
         /\ k \in tx'[t].read_lock_list_local
         /\ k \notin tx'[t].write_lock_list_local
         /\ global_lock_dict'[k].requestor = tx[t].tx_id
         /\ global_lock_dict'[k].readers = global_lock_dict[k].readers
         /\ write_lock_acquire(Cur, t, k).msg = "write_lock_acquire_failed"
         /\ ~write_lock_acquire(Cur, t, k).success
    ELSE /\ tx'[t].status = "aborted"
         /\ tx'[t].status # tx[t].status

\* C31 as stated: when transaction T holds a read lock on key k, requests the
\* write lock and other readers of k exist, then (a) if no other transaction
\* is registered as pending writer of k, T keeps its read lock, becomes the
\* pending writer, stays running and the request returns
\* 'write_lock_acquire_failed'; (b) if another transaction is already the
\* pending writer of k, T is rolled back
C31_UpgradeAsStated ==
    [][\A t \in Tx, k \in AllKeys(table_dict) :
          (ReadLockShared(t, k) /\ RequestsWriteLock(t, k)) => UpgradeOutcome(t, k)]_vars

\* C31: the same, for a key k that is not below the last lock id of T in the
\* lock order (a request below it is a lock-order violation, which rolls T
\* back before the upgrade is tried)
C31_UpgradeAmongReaders ==
    [][\A t \in Tx, k \in AllKeys(table_dict) :
          (/\ ReadLockShared(t, k) /\ RequestsWriteLock(t, k)
           /\ ~KeyLess(k, tx[t].last_lock_id)) => UpgradeOutcome(t, k)]_vars

\* both cases happened: a failed upgrade left its transaction pending writer,
\* and the upgrade of the other reader rolled that one back
C31_Witness ==
    \E t \in Tx, u \in Tx, k \in DOMAIN global_lock_dict :
        /\ u # t
        /\ lastop.op = "update" /\ lastop.tx = t /\ lastop.key = k
        /\ ~lastop.success /\ tx[t].status = "aborted"
        /\ tx[u].status = "running" /\ k \in tx[u].read_lock_list_local
        /\ global_lock_dict[k].requestor = tx[u].tx_id
        /\ ~KeyLess(k, tx[t].last_lock_id)

(***************************************************************************)
(* Cleaning the list of committed transactions                             *)
(* (transaction_manager.py 137-182, transaction.py 623-653)                *)
(***************************************************************************)
\* the committed transactions that the validation of t runs over: the list
\* object t was given when it began
ValidatedAgainst(t) == transaction_list[tx[t].transaction_list]

\* C32: cleaning hides no committed transaction: every transaction U that
\* committed after a still running transaction T began is on the list that
\* the commit of T will be validated against.
C32_CleaningHidesNoCommitted ==
    \A t, u \in DOMAIN tx :
        (/\ tx[t].status = "running" /\ tx[u].status = "committed"
         /\ tx[t].begin_ts < tx[u].commit_ts)
        => \E i \in 1 .. Len(ValidatedAgainst(t)) :
              ValidatedAgainst(t)[i].commit_ts = tx[u].commit_ts

(***************************************************************************)
(* Row ids of deleted rows (table.py 104-118, 165-175)                     *)
(***************************************************************************)
\* Table.delete has just emptied the chain of the existing row r of table n
RowDeleted(n, r) ==
    /\ r < Len(table_dict[n].tuples)
    /\ TableGet(table_dict[n], r) # << >>
    /\ table_dict'[n].tuples[r + 1] = << >>

\* C33: after the deletion of an existing row r of a single-version table,
\* get(r) returns the empty chain, r is on the list of deleted row ids, and
\* the next get_next_row_id returns r and appends no slot.
C33_DeletedRowIdIsReused ==
    [][\A n \in TableNames, r \in 0 .. 3 :
          RowDeleted(n, r)
          => /\ TableGet(table_dict'[n], r) = << >>
             /\ InSeq(r, table_dict'[n].deleted_row_ids)
             /\ get_next_row_id(table_dict'[n]).rowid = r
             /\ Len(get_next_row_id(table_dict'[n]).tb.tuples)
                  = Len(table_dict'[n].tuples)]_vars

(***************************************************************************)
(* The index based selections of a compiled plan (rules_phys.py 45-123)    *)
(***************************************************************************)
IndexBasedOf(o, rt) ==
    { op \in Reachable(o, rt) :
        o[op].class = "Selection" /\ o[op].physical = "IndexBased" }

ProjectionsOf(o, rt) == { op \in Reachable(o, rt) : o[op].class = "Projection" }

\* the selection sel of the plan (o, rt) may be answered from an index: it
\* references one attribute, only projections and selections stand between
\* it and a leaf, and the relation of the leaf has an index on the attribute
IndexAllowed(o, sel) ==
    /\ Cardinality(get_attributes_in_predicate(o, sel)) = 1
    /\ leaf_below([ops |-> o], o[sel].input) # None
    /\ \E a \in get_attributes_in_predicate(o, sel) :
          has_index_on(o[leaf_below([ops |-> o], o[sel].input)].relation, a)

\* every index based selection of the compiled plan stands for a selection
\* of the plan compiled that may be answered from an index
IndexBasedAllowed ==
    \A op \in IndexBasedOf(ops', root') :
        /\ Cardinality(get_attributes_in_predicate(ops', op)) = 1
        /\ \E sel \in SelectionsOf(ops, root) :
              ops[sel].predicate = ops'[op].predicate /\ IndexAllowed(ops, sel)

\* the compiled plan has the projections of the plan compiled
ProjectionsKept ==
    { ops'[op].attributes : op \in ProjectionsOf(ops', root') }
        = { ops[op].attributes : op \in ProjectionsOf(ops, root) }
    /\ Cardinality(ProjectionsOf(ops', root')) = Cardinality(ProjectionsOf(ops, root))

\* C34: in every plan returned by compile_plan each index based selection has
\* a predicate that references one attribute, had only projections and
\* selections between it and a leaf whose relation has an index on that
\* attribute, and the projections of the plan compiled are still in the plan.
C34_IndexSelectionOnlyWhenAllowed ==
    [][(JustApplied("compile_plan") /\ raised' = "none")
          => (IndexBasedAllowed /\ ProjectionsKept)]_vars

(***************************************************************************)
(* Replace-by-join on the selections over a product (rules_log.py 196-229) *)
(***************************************************************************)
\* a comparison of an attribute of A with an attribute of B, either way round
JoinPredicates ==
    { << Comparison(x, o, y, 0) >> :
        x \in { "a", "b" }, o \in CompOperators, y \in { "c", "d" } }
    \cup { << Comparison(y, o, x, 0) >> :
             x \in { "a", "b" }, o \in CompOperators, y \in { "c", "d" } }

\* a selection directly above the product of two leaves, as the root or
\* below a projection
JoinPlans ==
    LET Over(l, r, predicate) ==
            << LeafRelation(l), LeafRelation(r), Cartesian_Product(1, 2),
               Selection(3, predicate) >> IN
    UNION { { Plan(Over(lr[1], lr[2], predicate), 4),
              Plan(Append(Over(lr[1], lr[2], predicate),
                          Projection(4, << "a", "c" >>)), 5) } :
            lr \in { << "A", "B" >>, << "B", "A" >> }, predicate \in JoinPredicates }

InitJoin ==
    /\ TmIdle
    /\ \E ta \in Contents.A, ta2 \in Contents.A2, tb \in Contents.B :
          relations = [A |-> Relation("A", Catalogue.A, ta),
                       A2 |-> Relation("A2", Catalogue.A2, ta2),
                       B |-> Relation("B", Catalogue.B, tb)]
    /\ index = Null /\ got = Null
    /\ \E plan \in JoinPlans : ops = plan.ops /\ root = plan.root /\ plan0 = plan
    /\ rule = Null /\ applied = << >> /\ raised = "none"

SpecJoin == InitJoin /\ [][NextPlan]_vars

\* the selection sel of the plan compares an attribute of one input of the
\* product below it with an attribute of the other input
JoinSelection(o, sel) ==
    /\ o[sel].class = "Selection" /\ o[o[sel].input].class = "Cartesian_Product"
    /\ Len(o[sel].predicate) = 1
    /\ LET c == o[sel].predicate[1]
           cp == o[o[sel].input] IN
       /\ c.rhs_attr # "" /\ c.op \in CompOperators
       /\ \/ has_attribute(o, cp.l_input, c.lhs) /\ has_attribute(o, cp.r_input, c.rhs_attr)
          \/ has_attribute(o, cp.l_input, c.rhs_attr) /\ has_attribute(o, cp.r_input, c.lhs)

\* a term with every such selection and its product replaced by one join
RECURSIVE WithJoins(_, _)
WithJoins(o, op) ==
    IF JoinSelection(o, op)
    THEN TermOf(Theta_Join(None, None, o[op].predicate),
                << WithJoins(o, o[o[op].input].l_input),
                   WithJoins(o, o[o[op].input].r_input) >>)
    ELSE TermOf(o[op], IF UnaryOperator(o[op]) THEN << WithJoins(o, o[op].input) >>
                       ELSE IF BinaryOperator(o[op])
                       THEN << WithJoins(o, o[op].l_input), WithJoins(o, o[op].r_input) >>
                       ELSE << >>)

\* C35: replace-by-join replaces every selection directly above a product
\* whose predicate is one comparison x op y, op one of ==, <, <=, >, >=, x an
\* attribute of one input and y of the other, and the product below it, by
\* one join with the same predicate and the same left and right inputs.
C35_ReplaceByJoinEveryComparison ==
    [][JustApplied("ReplaceByJoin")
          => /\ raised' = "none"
             /\ Term(ops', root') = WithJoins(ops, root)]_vars

(***************************************************************************)
(* The executor on schedules that read and update loaded rows only, under  *)
(* locks at every isolation level and under multi-versioning; the loop of  *)
(* _execute is iterated for as long as it has not returned                 *)
(* (transaction_manager.py 313-385).                                       *)
(***************************************************************************)
MaxAccesses == 3

AccessStatements ==
    { st \in Statements : st.op \in { "BEGIN", "COMMIT", "ABORT", "READ", "UPDATE" } }

InitTermination ==
    \/ Start({ "READ_UNCOMMITTED", "READ_COMMITTED", "REPEATABLE_READS",
               "SERIALIZABLE" }, [n \in TableNames |-> LoadedTable], { << >> },
             FALSE)
    \/ StartMVCCManager(Tx, [n \in TableNames |-> LoadedMVCCTable], { << >> }, FALSE)

NextTermination ==
    \/ \E st \in AccessStatements : Offer(st, MaxAccesses)
    \/ Close
    \/ ExecuteListed

SpecTermination ==
    InitTermination /\ [][NextTermination]_vars /\ WF_vars(NextTermination)

\* C36: on every schedule in which each transaction starts with BEGIN,
\* accesses only existing rows and ends with COMMIT or ABORT, _execute
\* eventually finds the input exhausted and nothing pending, and returns.
C36_ExecutorTerminates == <>done

(***************************************************************************)
(* The lock records and the lock lists of the transactions                 *)
(* (dummy_rw_lock.py 40-82, transaction.py 127-232, 543-608)               *)
(***************************************************************************)
ReadHolders(k) ==
    { t \in Tx : tx[t].status = "running" /\ k \in tx[t].read_lock_list_local }

WriteHolders(k) ==
    { t \in Tx : tx[t].status = "running" /\ k \in tx[t].write_lock_list_local }

\* the record of k, or a record as DummyRWLock makes it when k has none
LockRecord(k) ==
    IF k \in DOMAIN global_lock_dict THEN global_lock_dict[k] ELSE DummyRWLock

ReaderCountMatches ==
    \A k \in AllKeys(table_dict) \cup DOMAIN global_lock_dict :
        LockRecord(k).readers = Cardinality(ReadHolders(k))

WriterFlagMatches ==
    \A k \in AllKeys(table_dict) \cup DOMAIN global_lock_dict :
        LockRecord(k).active_writer <=> Cardinality(WriteHolders(k)) = 1

OneWriter ==
    \A k \in AllKeys(table_dict) \cup DOMAIN global_lock_dict :
        Cardinality(WriteHolders(k)) <= 1

\* C37: in every state of lock-based execution and for every key k, the
\* reader count of the lock record of k is the number of running
\* transactions with k in their read-lock list, the writer flag is set iff
\* exactly one running transaction has k in its write-lock list, and no key
\* is in the write-lock lists of two running transactions.
C37_LockBookkeeping ==
    ReaderCountMatches /\ WriterFlagMatches /\ OneWriter

C37_Witness ==
    \E k \in DOMAIN global_lock_dict, k2 \in DOMAIN global_lock_dict :
        /\ Cardinality(ReadHolders(k)) = 2 /\ global_lock_dict[k].readers = 2
        /\ Cardinality(WriteHolders(k2)) = 1 /\ global_lock_dict[k2].active_writer
        /\ lastop.op = "update" /\ lastop.success

(***************************************************************************)
(* The pending writer of a lock record                                     *)
(* (dummy_rw_lock.py 77-97, transaction.py 191-214, 543-569)               *)
(***************************************************************************)
\* the step is a request of t, which holds a read lock on k, for the write
\* lock on k, and it ends with t rolled back with 'transaction_aborted'
UpgradeAborted(t, k) ==
    /\ tx[t].status = "running" /\ k \in tx[t].read_lock_list_local
    /\ RequestsWriteLock(t, k)
    /\ write_lock_acquire(Cur, t, k).msg = "transaction_aborted"
    /\ tx'[t].status = "aborted"

\* another transaction, running and holding a read lock on k, is registered
\* as pending writer of k
LiveCompetitor(t, k) ==
    \E u \in Tx \ {t} :
        /\ tx[u].status = "running" /\ k \in tx[u].read_lock_list_local
        /\ global_lock_dict[k].requestor = tx[u].tx_id

\* every pending writer registered in a lock record is a running transaction
RegistrantsRunning ==
    \A k \in DOMAIN global_lock_dict :
        global_lock_dict[k].requestor # None
        => \E u \in Tx : /\ tx[u].status = "running"
                         /\ tx[u].tx_id = global_lock_dict[k].requestor

\* C38: a transaction is rolled back with 'transaction_aborted' on a
\* write-lock upgrade of k only if another transaction that is running and
\* holds a read lock on k is registered as pending writer of k, and the
\* registration of a pending writer never outlives the commit or abort of
\* the transaction that made it.
C38_PendingWriterIsLive ==
    /\ [][\A t \in Tx, k \in AllKeys(table_dict) :
             UpgradeAborted(t, k) => LiveCompetitor(t, k)]_vars
    /\ []RegistrantsRunning

(***************************************************************************)
(* A transaction reads what it has written                                 *)
(* (transaction.py 148-152, 305-377, 406-454)                              *)
(***************************************************************************)
\* t is running, holds the write lock on k and has updated the row of k: the
\* newest version of the row is the one t has put
OwnUpdate(t, k) ==
    /\ tx[t].status = "running"
    /\ k \in tx[t].write_lock_list_local
    /\ k \in DOMAIN tx[t].original_row
    /\ Len(Chain(table_dict, k)) > 0

ReadsKey(t, k) == lastop'.op = "read" /\ lastop'.tx = t /\ lastop'.key = k

\* C39: at every isolation level of lock-based mode, a read of k by a running
\* transaction T after its own successful update of k completes without error,
\* returns the value T has written, and leaves the write lock of T on k held.
C39_ReadYourOwnWrites ==
    [][\A t \in Tx, k \in AllKeys(table_dict) :
          (OwnUpdate(t, k) /\ ReadsKey(t, k))
          => /\ exc' = "none"
             /\ lastop'.success
             /\ lastop'.row = tuple_to_dict(Chain(table_dict, k)[Len(Chain(table_dict, k))])
             /\ tx'[t].status = "running"
             /\ k \in tx'[t].write_lock_list_local
             /\ global_lock_dict'[k].active_writer]_vars

(***************************************************************************)
(* The active multi-version transactions                                   *)
(* (transaction_manager.py 116-135, 150-196, transaction.py 876-882)       *)
(***************************************************************************)
RunningBeginTs == { tx[t].begin_ts : t \in { u \in DOMAIN tx : tx[u].status = "running" } }

\* C40: in every state of the manager in multi-version mode
\* active_transactions is the set of the begin_ts of the transactions whose
\* status is running: a transaction that aborts is removed from it just like
\* one that commits.
C40_ActiveSetIsRunning == use_mvcc => active_transactions = RunningBeginTs

====
